---- MODULE Spec2Model ----
(***************************************************************************)
(* The authenticated tool-invocation gateway of the HITL.sh MCP server.    *)
(*                                                                         *)
(* Two endpoints are modelled:                                             *)
(*   "mcp"    app/mcp/route.ts    withMcpAuth(handler, verifyToken,        *)
(*                                {required: true}) in front of the tools  *)
(*   "simple" app/simple/route.ts the tools alone; the API key is checked  *)
(*                                inside each tool handler                 *)
(*                                                                         *)
(* JSON values are tagged records, objects are functions from the keys     *)
(* that are present to their values.  The clock counts periods of 150 s.   *)
(* revokedAt is the state of the upstream API: the time at which it        *)
(* revoked a key.  jwt is the verification in progress of the signed-token *)
(* strategy (verifyAuth0Token).                                            *)
(***************************************************************************)
EXTENDS Integers, Sequences, FiniteSets, TLC

VARIABLES now, authCache, calls, revokedAt, jwt

vars == <<now, authCache, calls, revokedAt, jwt>>

(***************************************************************************)
(* Bounds of the model.                                                    *)
(***************************************************************************)
MaxTime == 3

(***************************************************************************)
(* Program constants, in periods of 150 s.                                 *)
(*   AUTH_CACHE_TTL_MS = 5 * 60 * 1000 ms = 2 periods                      *)
(*   maxDuration: 90 s; a call of at most 90 s sees at most one tick of    *)
(*   the clock                                                             *)
(***************************************************************************)
AUTH_CACHE_TTL_MS == 2
maxDuration == 1

(***************************************************************************)
(* JSON values                                                             *)
(***************************************************************************)
Undef == [t |-> "undefined"]
Str(s) == [t |-> "string", s |-> s]
Num(n) == [t |-> "number", n |-> n]
Bool(b) == [t |-> "boolean", b |-> b]
Obj(f) == [t |-> "object", f |-> f]
Arr(a) == [t |-> "array", a |-> a]

EmptyFields == [k \in {} |-> Undef]

Get(o, k) == IF k \in DOMAIN o THEN o[k] ELSE Undef

\* the object holding the (key, value) pairs of f whose value is defined
Present(f) == [k \in {j \in DOMAIN f : f[j] # Undef} |-> f[k]]

\* the texts the model uses that stand for long strings, with their lengths
LongText == "<2001 characters>"
MaxText == "<2000 characters>"

StrLen(s) ==
  CASE s = LongText -> 2001
    [] s = MaxText -> 2000
    [] OTHER -> Len(s)

\* new URL(s) succeeds
IsUrl(s) == s \in {"https://example.com/a.png", "https://example.com/hook"}

\* JavaScript truthiness of a JSON value
Truthy(v) ==
  CASE v.t = "undefined" -> FALSE
    [] v.t = "string" -> v.s # ""
    [] v.t = "number" -> v.n # 0
    [] v.t = "boolean" -> v.b
    [] OTHER -> TRUE

(***************************************************************************)
(* zod: a field type is a record [kind, optional, values, min, max, url,   *)
(* message].                                                               *)
(* Parsing a field ends "valid", "dirty" (a check failed, parsing goes on) *)
(* or "aborted" (wrong type, missing, not in the enum).                    *)
(***************************************************************************)
NoMin == 0 - 1
NoMax == 0 - 1

ZEnum(vs) == [kind |-> "enum", optional |-> FALSE, values |-> vs, min |-> NoMin, max |-> NoMax, url |-> FALSE, message |-> "invalid"]
ZString(mn, mx) == [kind |-> "string", optional |-> FALSE, values |-> {}, min |-> mn, max |-> mx, url |-> FALSE, message |-> "invalid"]
ZUrl == [kind |-> "string", optional |-> FALSE, values |-> {}, min |-> NoMin, max |-> NoMax, url |-> TRUE, message |-> "invalid"]
ZNumber(mn, mx) == [kind |-> "number", optional |-> FALSE, values |-> {}, min |-> mn, max |-> mx, url |-> FALSE, message |-> "invalid"]
ZBoolean == [kind |-> "boolean", optional |-> FALSE, values |-> {}, min |-> NoMin, max |-> NoMax, url |-> FALSE, message |-> "invalid"]
ZRecord == [kind |-> "record", optional |-> FALSE, values |-> {}, min |-> NoMin, max |-> NoMax, url |-> FALSE, message |-> "invalid"]
ZUnknown == [kind |-> "unknown", optional |-> TRUE, values |-> {}, min |-> NoMin, max |-> NoMax, url |-> FALSE, message |-> "invalid"]
ZStringArray == [kind |-> "array", optional |-> FALSE, values |-> {}, min |-> NoMin, max |-> NoMax, url |-> FALSE, message |-> "invalid"]
ZOptional(z) == [z EXCEPT !.optional = TRUE]
ZMessage(z, m) == [z EXCEPT !.message = m]

\* schema.partial(): every field optional
ZPartial(shape) == [k \in DOMAIN shape |-> ZOptional(shape[k])]

FieldStatus(z, v) ==
  IF v = Undef THEN (IF z.optional THEN "valid" ELSE "aborted")
  ELSE CASE z.kind = "unknown" -> "valid"
         [] z.kind = "enum" ->
              IF v.t = "string" /\ v.s \in z.values THEN "valid" ELSE "aborted"
         [] z.kind = "string" ->
              IF v.t # "string" THEN "aborted"
              ELSE IF \/ (z.min # NoMin /\ StrLen(v.s) < z.min)
                      \/ (z.max # NoMax /\ StrLen(v.s) > z.max)
                      \/ (z.url /\ ~IsUrl(v.s))
                   THEN "dirty" ELSE "valid"
         [] z.kind = "number" ->
              IF v.t # "number" THEN "aborted"
              ELSE IF \/ (z.min # NoMin /\ v.n < z.min)
                      \/ (z.max # NoMax /\ v.n > z.max)
                   THEN "dirty" ELSE "valid"
         [] z.kind = "boolean" -> IF v.t = "boolean" THEN "valid" ELSE "aborted"
         [] z.kind = "record" -> IF v.t = "object" THEN "valid" ELSE "aborted"
         [] z.kind = "array" ->
              IF v.t = "array" /\ \A i \in DOMAIN v.a : v.a[i].t = "string"
              THEN "valid" ELSE "aborted"

\* z.object(shape) on the fields o: the paths with an issue, whether parsing
\* was aborted, and the parsed value (unknown keys stripped; with passthrough
\* = TRUE, .catchall(z.unknown()), they are kept)
ZObjectParse(shape, o, passthrough) ==
  LET bad == {k \in DOMAIN shape : FieldStatus(shape[k], Get(o, k)) # "valid"}
      kept == IF passthrough THEN DOMAIN o ELSE DOMAIN o \cap DOMAIN shape
  IN [issues |-> {[path |-> k, message |-> shape[k].message] : k \in bad},
      aborted |-> \E k \in bad : FieldStatus(shape[k], Get(o, k)) = "aborted",
      value |-> [k \in kept |-> o[k]]]

(***************************************************************************)
(* The tool contracts of app/mcp/route.ts.  app/simple/route.ts repeats    *)
(* them (without delete_request and without cancel_request's reason).      *)
(***************************************************************************)
createRequestFieldsSchema ==
  [processing_type |-> ZEnum({"time-sensitive", "deferred"}),
   type |-> ZEnum({"markdown", "image"}),
   priority |-> ZEnum({"low", "medium", "high", "critical"}),
   request_text |-> ZString(1, 2000),
   timeout_seconds |-> ZOptional(ZNumber(1, NoMax)),
   response_type |-> ZEnum({"single_select", "multi_select", "rating", "text", "number"}),
   response_config |-> ZRecord,
   default_response |-> ZUnknown,
   platform |-> ZOptional(ZString(NoMin, NoMax)),
   image_url |-> ZOptional(ZUrl),
   context |-> ZOptional(ZRecord),
   callback_url |-> ZOptional(ZUrl),
   tags |-> ZOptional(ZStringArray)]

loopIdField == ZMessage(ZString(1, NoMax), "Loop ID is required")
requestIdField == ZMessage(ZString(1, NoMax), "request_id is required")

\* the raw shape the framework validates create_request arguments against
createRequestShape == ("loop_id" :> loopIdField) @@ createRequestFieldsSchema

\* variant: superRefine with the rule of timeout_seconds alone
SuperRefineTimeoutOnly(value) ==
  {[path |-> "timeout_seconds",
    message |-> "timeout_seconds is required when processing_type is time-sensitive"] :
      x \in {1} \cap (IF /\ Get(value, "processing_type") = Str("time-sensitive")
                         /\ Get(value, "timeout_seconds").t # "number"
                      THEN {1} ELSE {})}

\* the two cross-field rules of createRequestInputSchema's superRefine
SuperRefineIssues(value) ==
  {[path |-> "timeout_seconds",
    message |-> "timeout_seconds is required when processing_type is time-sensitive"] :
      x \in {1} \cap (IF /\ Get(value, "processing_type") = Str("time-sensitive")
                         /\ Get(value, "timeout_seconds").t # "number"
                      THEN {1} ELSE {})}
  \cup
  {[path |-> "image_url", message |-> "image_url is required when type is image"] :
      x \in {1} \cap (IF /\ Get(value, "type") = Str("image")
                         /\ ~Truthy(Get(value, "image_url"))
                      THEN {1} ELSE {})}

\* createRequestInputSchema.parse(input): superRefine runs unless the object
\* parse was aborted
createRequestInputSchema(input) ==
  LET base == ZObjectParse(createRequestShape, input, FALSE)
      issues == base.issues \cup (IF base.aborted THEN {} ELSE SuperRefineIssues(base.value))
  IN [ok |-> issues = {}, issues |-> issues, value |-> base.value]

listRequestsInputSchema ==
  [status |-> ZOptional(ZEnum({"pending", "claimed", "completed", "timeout", "cancelled"})),
   priority |-> ZOptional(ZEnum({"low", "medium", "high", "critical"})),
   loop_id |-> ZOptional(ZString(NoMin, NoMax)),
   limit |-> ZOptional(ZNumber(1, 100)),
   offset |-> ZOptional(ZNumber(0, NoMax)),
   sort |-> ZOptional(ZEnum({"created_at_desc", "created_at_asc", "priority_desc", "status_asc"}))]

requestIdSchema == [request_id |-> requestIdField]

cancelRequestInputSchema == ("reason" :> ZOptional(ZString(1, 1000))) @@ requestIdSchema

feedbackFields ==
  [rating |-> ZOptional(ZNumber(1, 5)),
   comment |-> ZOptional(ZString(NoMin, 1000)),
   accuracy |-> ZOptional(ZNumber(1, 5)),
   timeliness |-> ZOptional(ZNumber(1, 5)),
   helpfulness |-> ZOptional(ZNumber(1, 5)),
   would_recommend |-> ZOptional(ZBoolean),
   tags |-> ZOptional(ZStringArray),
   follow_up_needed |-> ZOptional(ZBoolean),
   category |-> ZOptional(ZEnum({"positive", "constructive", "issue"}))]

\* variant: the inner object schema keeps the keys it does not declare
ZNestedParseKeepsUnknownKeys(shape, v, passthrough, refined, message, path) ==
  IF v.t # "object"
  THEN [issues |-> {[path |-> path, message |-> "invalid"]}, aborted |-> TRUE, value |-> Undef]
  ELSE LET inner == ZObjectParse(shape, v.f, TRUE)
           empty == refined /\ ~inner.aborted /\ DOMAIN inner.value = {}
       IN [issues |-> {[path |-> path, message |-> i.message] : i \in inner.issues}
                      \cup (IF empty THEN {[path |-> path, message |-> message]} ELSE {}),
           aborted |-> inner.aborted,
           value |-> Obj(inner.value)]

\* an object field of an outer object: v parsed by the inner object schema,
\* then (refined = TRUE) the .refine(Object.keys(value).length > 0, message)
ZNestedParse(shape, v, passthrough, refined, message, path) ==
  IF v.t # "object"
  THEN [issues |-> {[path |-> path, message |-> "invalid"]}, aborted |-> TRUE, value |-> Undef]
  ELSE LET inner == ZObjectParse(shape, v.f, passthrough)
           empty == refined /\ ~inner.aborted /\ DOMAIN inner.value = {}
       IN [issues |-> {[path |-> path, message |-> i.message] : i \in inner.issues}
                      \cup (IF empty THEN {[path |-> path, message |-> message]} ELSE {}),
           aborted |-> inner.aborted,
           value |-> Obj(inner.value)]

\* z.object({request_id, <field>: <nested object schema>}).parse(input)
ZWithNested(input, field, nested) ==
  LET base == ZObjectParse(requestIdSchema, input, FALSE)
      issues == base.issues \cup nested.issues
  IN [ok |-> issues = {}, issues |-> issues,
      value |-> Present((field :> nested.value) @@ base.value)]

\* updateRequestShape: updates is createRequestFieldsSchema.partial(), no refine
updateRequestShape(input) ==
  ZWithNested(input, "updates",
    ZNestedParse(ZPartial(createRequestFieldsSchema), Get(input, "updates"), FALSE,
                 FALSE, "", "updates"))

\* variant: the handler parses with the schema of the registered shape
updateRequestWithoutRefine(input) == updateRequestShape(input)

updateRequestInputSchema(input) ==
  ZWithNested(input, "updates",
    ZNestedParse(ZPartial(createRequestFieldsSchema), Get(input, "updates"), FALSE,
                 TRUE, "Provide at least one field to update", "updates"))

\* feedbackSchema: .catchall(z.unknown()).refine(keys > 0, "Feedback cannot be empty")
addFeedbackInputSchema(input) ==
  ZWithNested(input, "feedback",
    ZNestedParse(feedbackFields, Get(input, "feedback"), TRUE,
                 TRUE, "Feedback cannot be empty", "feedback"))

\* a plain z.object(shape).parse(input)
ZParse(shape, input) ==
  LET base == ZObjectParse(shape, input, FALSE)
  IN [ok |-> base.issues = {}, issues |-> base.issues, value |-> base.value]

(***************************************************************************)
(* Credentials, headers, identities                                        *)
(***************************************************************************)
Keys == {"hitl_live_a", "hitl_test_b", "sk_live_c"}

\* apiKey.startsWith('hitl_live_') || apiKey.startsWith('hitl_test_')
HasHitlPrefix(k) == k \in {"hitl_live_a", "hitl_test_b"}

\* the account the upstream API reports for a key (data.user_id)
AccountOf(k) == IF k = "sk_live_c" THEN "user_2" ELSE "user_1"

NoHeader == [scheme |-> "", token |-> ""]
Bearer(k) == [scheme |-> "Bearer", token |-> k]

ToLowerCase(w) ==
  CASE w = "Bearer" -> "bearer"
    [] w = "Basic" -> "basic"
    [] OTHER -> w

NoAuth == [token |-> "", clientId |-> ""]

\* parseBearer / extractBearerFromHeaders: the token of "<type> <token>" when
\* type is bearer in any case, "" for no token
parseBearer(h) ==
  IF h = NoHeader THEN ""
  ELSE IF ToLowerCase(h.scheme) # "bearer" \/ h.token = "" THEN "" ELSE h.token

\* the bearer token withMcpAuth hands to verifyToken
McpBearerToken(h) == IF ToLowerCase(h.scheme) = "bearer" THEN h.token ELSE ""

\* variant: any Bearer token is taken as the API key
validateApiKeyAuthAnyBearer(h) ==
  IF h = NoHeader \/ h.scheme # "Bearer"
  THEN [ok |-> FALSE, key |-> "", message |-> "HITL API Key Required"]
  ELSE [ok |-> TRUE, key |-> h.token, message |-> ""]

\* validateApiKeyAuth: the API key, or the error thrown
validateApiKeyAuth(h) ==
  IF h = NoHeader \/ h.scheme # "Bearer"
  THEN [ok |-> FALSE, key |-> "", message |-> "HITL API Key Required"]
  ELSE IF ~HasHitlPrefix(h.token)
       THEN [ok |-> FALSE, key |-> "", message |-> "Invalid HITL API Key Format"]
       ELSE [ok |-> TRUE, key |-> h.token, message |-> ""]

(***************************************************************************)
(* The verification cache and the upstream introspection                   *)
(***************************************************************************)
NoEntry == [authInfo |-> NoAuth, expiresAt |-> 0]

\* variant: an entry of the cache never expires
CacheNeverExpires(entry, t) == entry # NoEntry

\* variant: an entry still served at the instant of its expiry
CacheFreshInclusive(entry, t) == entry # NoEntry /\ entry.expiresAt >= t

\* cached && cached.expiresAt > Date.now()
CacheFresh(entry, t) == entry # NoEntry /\ entry.expiresAt > t

\* the answers of the upstream API to the introspection request: a success
\* envelope, an envelope with error = true, a non-2xx status, a failed
\* fetch, a 2xx JSON body that does not parse, a 2xx body that is not JSON
VerifyOutcomes ==
  {"key_valid", "key_error_envelope", "key_http_401", "key_http_500", "key_network_error",
   "key_unparsable_body", "key_not_json"}

\* 2xx answers that are JSON but not of the documented form: an envelope
\* without the error flag, one without data, one whose data names no
\* account (none of user_id, email, api_key_id)
MalformedAnswers == {"key_no_error_flag", "key_no_data", "key_no_account"}

\* the key has not been revoked
NotRevoked == 0 - 1

\* what the upstream API can answer to the introspection of key k: once it
\* has revoked the key, every answer is a failure
UpstreamAnswers(k) ==
  IF k \in Keys /\ revokedAt[k] # NotRevoked
  THEN VerifyOutcomes \ {"key_valid"}
  ELSE VerifyOutcomes

\* client.validateApiKey() on that answer: the envelope it returns, or what
\* HitlClient.request throws
validateApiKey(outcome) ==
  CASE outcome = "key_valid" -> [thrown |-> "", envelope |-> "ok"]
    [] outcome = "key_error_envelope" -> [thrown |-> "", envelope |-> "error"]
    [] outcome = "key_http_401" -> [thrown |-> "HitlApiError_401", envelope |-> ""]
    [] outcome = "key_http_500" -> [thrown |-> "HitlApiError", envelope |-> ""]
    [] outcome = "key_network_error" -> [thrown |-> "TypeError", envelope |-> ""]
    [] outcome = "key_unparsable_body" -> [thrown |-> "SyntaxError", envelope |-> ""]
    [] outcome = "key_not_json" -> [thrown |-> "", envelope |-> "raw"]
    [] outcome = "key_no_error_flag" -> [thrown |-> "", envelope |-> "no_flag"]
    [] outcome = "key_no_data" -> [thrown |-> "", envelope |-> "no_data"]
    [] outcome = "key_no_account" -> [thrown |-> "", envelope |-> "no_account"]

\* what is thrown inside the try block of getAuthInfoForToken: by the client,
\* or by reading envelope.data.user_id of a body without data
ThrownInTry(outcome) ==
  LET r == validateApiKey(outcome)
  IN IF r.thrown # "" THEN r.thrown
     ELSE IF r.envelope \in {"raw", "no_data"} THEN "TypeError" ELSE ""

\* variant: the catch block returns undefined for a 401 and throws the rest
VerifierCatchRethrows(thrown) ==
  IF thrown = "HitlApiError_401" THEN "undefined" ELSE "raised"

\* the catch block of getAuthInfoForToken: "undefined" when it returns
\* undefined, "raised" when the error leaves the function
VerifierCatch(thrown) ==
  IF thrown = "HitlApiError_401" THEN "undefined" ELSE "undefined"

\* getAuthInfoForToken ends by throwing
VerifierRaised(outcome) ==
  ThrownInTry(outcome) # "" /\ VerifierCatch(ThrownInTry(outcome)) = "raised"

\* variant: the error flag of the envelope is not looked at
AuthInfoIgnoringEnvelopeError(k, outcome) ==
  IF outcome \in {"key_valid", "key_error_envelope"}
  THEN [token |-> k, clientId |-> AccountOf(k)]
  ELSE NoAuth

\* the clientId of an AuthInfo built from data without user_id, email and
\* api_key_id: undefined
NoClientId == "<undefined>"

\* what getAuthInfoForToken makes of the outcome: the AuthInfo, or NoAuth
\* for "no identity".  if (envelope.error) return undefined: an envelope
\* without the flag goes on; clientId is data.user_id ?? data.email ??
\* data.api_key_id
AuthInfoFromOutcome(k, outcome) ==
  IF ThrownInTry(outcome) # "" THEN NoAuth
  ELSE CASE validateApiKey(outcome).envelope \in {"ok", "no_flag"} ->
              [token |-> k, clientId |-> AccountOf(k)]
         [] validateApiKey(outcome).envelope = "no_account" ->
              [token |-> k, clientId |-> NoClientId]
         [] OTHER -> NoAuth

\* variant: the entry is stored without its time to live
CacheSetWithoutTtl(cache, k, authInfo, t) ==
  [cache EXCEPT ![k] = [authInfo |-> authInfo, expiresAt |-> t]]

\* variant: one slot per account; the entry is stored under every key of
\* the account the key belongs to
CacheSetPerAccount(cache, k, authInfo, t) ==
  [j \in Keys |->
     IF AccountOf(j) = AccountOf(k)
     THEN [authInfo |-> authInfo, expiresAt |-> t + AUTH_CACHE_TTL_MS]
     ELSE cache[j]]

\* variant: the cache holds one entry; storing k removes the others
CacheSetSingleEntry(cache, k, authInfo, t) ==
  [j \in Keys |->
     IF j = k THEN [authInfo |-> authInfo, expiresAt |-> t + AUTH_CACHE_TTL_MS]
     ELSE NoEntry]

\* variant: a verification that finishes while a fresh entry exists keeps
\* that entry (the first writer wins)
CacheSetKeepsFirst(cache, k, authInfo, t) ==
  IF cache[k] # NoEntry /\ cache[k].expiresAt > t
  THEN cache
  ELSE [cache EXCEPT ![k] = [authInfo |-> authInfo, expiresAt |-> t + AUTH_CACHE_TTL_MS]]

\* authCache.set(bearerToken, {authInfo, expiresAt: Date.now() + TTL})
CacheSet(cache, k, authInfo, t) ==
  [cache EXCEPT ![k] = [authInfo |-> authInfo, expiresAt |-> t + AUTH_CACHE_TTL_MS]]

(***************************************************************************)
(* The tools: registration, the framework's shape validation, the          *)
(* handler's own validation and the downstream call it issues              *)
(***************************************************************************)
SimpleTools == {"list_loops", "create_request", "list_requests", "get_request",
                "update_request", "cancel_request", "add_request_feedback"}

\* the tools server.tool registers on an endpoint
RegisteredTools(endpoint) ==
  IF endpoint = "mcp" THEN SimpleTools \cup {"delete_request"} ELSE SimpleTools

\* the raw shape registered with the tool, applied by the framework before
\* the handler is called; the handler receives the parsed value
ShapeParse(endpoint, tool, args) ==
  CASE tool = "list_loops" -> ZParse(EmptyFields, args)
    [] tool = "create_request" -> ZParse(createRequestShape, args)
    [] tool = "list_requests" -> ZParse(listRequestsInputSchema, args)
    [] tool = "update_request" -> updateRequestShape(args)
    [] tool = "add_request_feedback" -> addFeedbackInputSchema(args)
    [] tool = "cancel_request" ->
         ZParse(IF endpoint = "mcp" THEN cancelRequestInputSchema ELSE requestIdSchema, args)
    [] OTHER -> ZParse(requestIdSchema, args)

\* the schema.parse(...) call in the handler body, on the input it received
HandlerParse(tool, input) ==
  CASE tool = "create_request" -> createRequestInputSchema(input)
    [] tool = "list_requests" -> ZParse(listRequestsInputSchema, input)
    [] tool = "update_request" -> updateRequestInputSchema(input)
    [] tool = "add_request_feedback" -> addFeedbackInputSchema(input)
    [] OTHER -> [ok |-> TRUE, issues |-> {}, value |-> input]

NoCall == [method |-> "", key |-> "", id |-> Undef, body |-> Undef]

\* const { loop_id, ...payload } = parsed; if (!payload.platform) payload.platform = "api"
CreatePayload(parsed) ==
  LET rest == [k \in DOMAIN parsed \ {"loop_id"} |-> parsed[k]]
  IN IF Truthy(Get(rest, "platform")) THEN rest
     ELSE ("platform" :> Str("api")) @@ rest

\* the method of the downstream client the handler calls, with its arguments
DownstreamCall(endpoint, tool, v, key) ==
  CASE tool = "list_loops" ->
         [method |-> "getLoops", key |-> key, id |-> Undef, body |-> Undef]
    [] tool = "create_request" ->
         [method |-> "createRequest", key |-> key, id |-> Get(v, "loop_id"),
          body |-> Obj(CreatePayload(v))]
    [] tool = "list_requests" ->
         [method |-> "listRequests", key |-> key, id |-> Undef, body |-> Obj(v)]
    [] tool = "get_request" ->
         [method |-> "getRequest", key |-> key, id |-> Get(v, "request_id"), body |-> Undef]
    [] tool = "update_request" ->
         [method |-> "updateRequest", key |-> key, id |-> Get(v, "request_id"),
          body |-> Get(v, "updates")]
    [] tool = "delete_request" ->
         [method |-> "deleteRequest", key |-> key, id |-> Get(v, "request_id"), body |-> Undef]
    [] tool = "cancel_request" ->
         [method |-> "cancelRequest", key |-> key, id |-> Get(v, "request_id"),
          body |-> IF endpoint = "mcp" /\ Truthy(Get(v, "reason"))
                   THEN Obj("reason" :> Get(v, "reason")) ELSE Undef]
    [] tool = "add_request_feedback" ->
         [method |-> "addRequestFeedback", key |-> key, id |-> Get(v, "request_id"),
          body |-> Obj("feedback" :> Get(v, "feedback"))]

(***************************************************************************)
(* The calls.  pc is the place the call's asynchronous chain is at:        *)
(*   "idle"            no request                                          *)
(*   "gate_wait"       withMcpAuth awaits the introspection request        *)
(*   "dispatch"        inside authStorage.run / requestStorage.run, before *)
(*                     the framework has resolved the tool                 *)
(*   "handler"         the framework is about to call the tool handler     *)
(*   "resolve_wait"    resolveAuthInfo awaits the introspection request    *)
(*   "downstream_wait" the handler awaits the downstream API               *)
(*   "done"            the response has been sent                          *)
(* trace is the history of the call: what the gateway did and what the     *)
(* upstream API answered (the names of VerifyOutcomes, DownstreamOutcomes). *)
(***************************************************************************)
\* two calls, A and B, can be in flight at the same time
CallIds == {1, 2}

\* a result is [kind, message, issues, status, content]: status is the number
\* of the " (status N)" suffix of an error's message (NoStatus: no suffix),
\* content the content blocks of a success envelope
NoStatus == 0 - 1

\* the state of verifyAuth0Token (signed-token strategy): the segments of
\* the bearer value, the result, and the events of the verification
IdleVerification == [pc |-> "idle", token |-> <<>>, result |-> "none", trace |-> <<>>]

NoResult ==
  [kind |-> "none", message |-> "", issues |-> {}, status |-> NoStatus, content |-> <<>>]

IdleCall ==
  [pc |-> "idle", endpoint |-> "mcp", header |-> NoHeader, tool |-> "", args |-> EmptyFields,
   auth |-> NoAuth, bound |-> FALSE, env |-> "context", ident |-> NoAuth, clientKey |-> "",
   sent |-> NoCall, result |-> NoResult, trace |-> <<>>, age |-> 0]

Init ==
  /\ now = 0
  /\ authCache = [k \in Keys |-> NoEntry]
  /\ calls = [c \in CallIds |-> IdleCall]
  /\ revokedAt = [k \in Keys |-> NotRevoked]
  /\ jwt = IdleVerification

\* the call ends with an error response
Failed(rec, kind, message, issues, events) ==
  [rec EXCEPT !.pc = "done",
              !.result = [kind |-> kind, message |-> message, issues |-> issues,
                          status |-> NoStatus, content |-> <<>>],
              !.trace = rec.trace \o events]

\* req.auth = authInfo; authStorage.run(req.auth, () => baseHandler(req))
Established(rec, authInfo, events) ==
  [rec EXCEPT !.pc = "dispatch", !.auth = authInfo, !.bound = TRUE,
              !.trace = rec.trace \o events \o <<"identity", "context">>]

\* the events of a cache lookup that finds no fresh entry
MissEvents(entry) ==
  (IF entry # NoEntry THEN <<"cache_expired">> ELSE <<>>) \o <<"verify_request">>

\* variant: one holder of the current identity for the whole process, which
\* another call in flight overwrites
getStoreShared(c) ==
  IF \E d \in CallIds \ {c} : calls[d].bound /\ calls[d].auth # NoAuth
  THEN calls[CHOOSE d \in CallIds \ {c} : calls[d].bound /\ calls[d].auth # NoAuth].auth
  ELSE IF calls[c].bound /\ calls[c].env = "context" THEN calls[c].auth ELSE NoAuth

\* authStorage.getStore() in the chain of call c: the value bound by run,
\* when the handler executes inside the established context
getStore(c) ==
  IF calls[c].bound /\ calls[c].env = "context" THEN calls[c].auth ELSE NoAuth

\* requestStorage.getStore() in the chain of call c: the Request
requestGetStore(c) ==
  IF calls[c].bound /\ calls[c].env = "context"
  THEN [present |-> TRUE, header |-> calls[c].header]
  ELSE [present |-> FALSE, header |-> NoHeader]

\* variant: the handler sends the input it received without parsing it
AfterClientUnvalidated(rec, authInfo, key, events) ==
  LET input == ShapeParse(rec.endpoint, rec.tool, rec.args).value
  IN [rec EXCEPT !.pc = "downstream_wait", !.ident = authInfo, !.clientKey = key,
                 !.sent = DownstreamCall(rec.endpoint, rec.tool, input, key),
                 !.trace = rec.trace \o events \o <<"client", "downstream_request">>]

\* variant: the handler parses its input after the downstream request
AfterClientParseLate(rec, authInfo, key, events) ==
  LET input == ShapeParse(rec.endpoint, rec.tool, rec.args).value
      p == HandlerParse(rec.tool, input)
      sent == [rec EXCEPT !.ident = authInfo, !.clientKey = key,
                          !.sent = DownstreamCall(rec.endpoint, rec.tool, input, key)]
  IN IF ~p.ok
     THEN Failed(sent, "error", "validation", p.issues,
                 events \o <<"client", "downstream_request", "api_ok", "parse_fail">>)
     ELSE [sent EXCEPT !.pc = "done",
                       !.result = [kind |-> "success", message |-> "", issues |-> {},
                                   status |-> NoStatus, content |-> <<>>],
                       !.trace = rec.trace \o events
                                   \o <<"client", "downstream_request", "api_ok",
                                        "parse_ok", "response">>]

\* the handler body after createClient: the client exists, the input is
\* parsed with the full schema, and the downstream request is issued
AfterClient(rec, authInfo, key, events) ==
  LET input == ShapeParse(rec.endpoint, rec.tool, rec.args).value
      p == HandlerParse(rec.tool, input)
  IN IF ~p.ok
     THEN [Failed(rec, "error", "validation", p.issues, events \o <<"client", "parse_fail">>)
             EXCEPT !.ident = authInfo, !.clientKey = key]
     ELSE [rec EXCEPT !.pc = "downstream_wait", !.ident = authInfo, !.clientKey = key,
                      !.sent = DownstreamCall(rec.endpoint, rec.tool, p.value, key),
                      !.trace = rec.trace \o events
                                  \o <<"client", "parse_ok", "downstream_request">>]

\* createClient(extra) once resolveAuthInfo has returned authInfo
AfterIdentity(rec, authInfo, events) ==
  AfterClient(rec, authInfo, authInfo.token, events \o <<"identity">>)

(***************************************************************************)
(* /mcp: authHandler = withMcpAuth(handler, verifyToken, {required: true}) *)
(***************************************************************************)
\* variant: withMcpAuth with required: false, a request without a token
\* goes on to the handler without an identity
McpAuthHandlerOptional(c, h, tool, args) ==
  /\ calls[c].pc = "idle"
  /\ LET k == McpBearerToken(h)
         rec == [IdleCall EXCEPT !.endpoint = "mcp", !.header = h, !.tool = tool,
                                 !.args = args]
     IN calls' = [calls EXCEPT ![c] =
          IF k = ""
          THEN [rec EXCEPT !.pc = "dispatch", !.bound = TRUE, !.trace = <<"context">>]
          ELSE IF CacheFresh(authCache[k], now)
               THEN Established(rec, authCache[k].authInfo, <<"cache_hit">>)
               ELSE [rec EXCEPT !.pc = "gate_wait", !.trace = MissEvents(authCache[k])]]
  /\ UNCHANGED <<now, authCache, revokedAt, jwt>>

\* variant: a cache hit at the gate renews the entry (a sliding TTL)
McpAuthHandlerSlidingTtl(c, h, tool, args) ==
  /\ calls[c].pc = "idle"
  /\ LET k == McpBearerToken(h)
         rec == [IdleCall EXCEPT !.endpoint = "mcp", !.header = h, !.tool = tool,
                                 !.args = args]
     IN IF k # "" /\ CacheFresh(authCache[k], now)
        THEN /\ calls' = [calls EXCEPT ![c] =
                  Established(rec, authCache[k].authInfo, <<"cache_hit">>)]
             /\ authCache' = [authCache EXCEPT ![k].expiresAt = now + AUTH_CACHE_TTL_MS]
        ELSE /\ calls' = [calls EXCEPT ![c] =
                  IF k = ""
                  THEN Failed(rec, "unauthorized", "No authorization provided", {},
                              <<"no_identity">>)
                  ELSE [rec EXCEPT !.pc = "gate_wait", !.trace = MissEvents(authCache[k])]]
             /\ UNCHANGED authCache
  /\ UNCHANGED <<now, revokedAt, jwt>>

\* a request arrives; withMcpAuth runs verifyToken up to its first await
McpAuthHandler(c, h, tool, args) ==
  /\ calls[c].pc = "idle"
  /\ LET k == McpBearerToken(h)
         rec == [IdleCall EXCEPT !.endpoint = "mcp", !.header = h, !.tool = tool,
                                 !.args = args]
     IN calls' = [calls EXCEPT ![c] =
          IF k = ""
          THEN Failed(rec, "unauthorized", "No authorization provided", {},
                      <<"no_identity">>)
          ELSE IF CacheFresh(authCache[k], now)
               THEN Established(rec, authCache[k].authInfo, <<"cache_hit">>)
               ELSE [rec EXCEPT !.pc = "gate_wait", !.trace = MissEvents(authCache[k])]]
  /\ UNCHANGED <<now, authCache, revokedAt, jwt>>

\* variant: a refused verification removes the entry of the credential
McpVerifyReturnEvicts(c, outcome) ==
  /\ calls[c].pc = "gate_wait"
  /\ LET rec == calls[c]
         k == McpBearerToken(rec.header)
         a == AuthInfoFromOutcome(k, outcome)
     IN IF a = NoAuth
        THEN /\ calls' = [calls EXCEPT ![c] =
                  Failed(rec, "unauthorized", "No authorization provided", {},
                         <<outcome, "no_identity">>)]
             /\ authCache' = [authCache EXCEPT ![k] = NoEntry]
        ELSE /\ authCache' = CacheSet(authCache, k, a, now)
             /\ calls' = [calls EXCEPT ![c] = Established(rec, a, <<outcome>>)]
  /\ UNCHANGED <<now, revokedAt, jwt>>

\* the introspection request of verifyToken returns
McpVerifyReturn(c, outcome) ==
  /\ calls[c].pc = "gate_wait"
  /\ LET rec == calls[c]
         k == McpBearerToken(rec.header)
         a == AuthInfoFromOutcome(k, outcome)
     IN IF VerifierRaised(outcome)
        THEN /\ calls' = [calls EXCEPT ![c] =
                  Failed(rec, "internal_error", ThrownInTry(outcome), {},
                         <<outcome, "verifier_raised">>)]
             /\ UNCHANGED authCache
        ELSE IF a = NoAuth
        THEN /\ calls' = [calls EXCEPT ![c] =
                  Failed(rec, "unauthorized", "No authorization provided", {},
                         <<outcome, "no_identity">>)]
             /\ UNCHANGED authCache
        ELSE /\ authCache' = CacheSet(authCache, k, a, now)
             /\ calls' = [calls EXCEPT ![c] = Established(rec, a, <<outcome>>)]
  /\ UNCHANGED <<now, revokedAt, jwt>>

(***************************************************************************)
(* /simple: handler = requestStorage.run(req, () => baseHandler(req))      *)
(***************************************************************************)
SimpleHandler(c, h, tool, args) ==
  /\ calls[c].pc = "idle"
  /\ calls' = [calls EXCEPT ![c] =
       [IdleCall EXCEPT !.endpoint = "simple", !.header = h, !.tool = tool, !.args = args,
                        !.pc = "dispatch", !.bound = TRUE, !.trace = <<"context">>]]
  /\ UNCHANGED <<now, authCache, revokedAt, jwt>>

(***************************************************************************)
(* baseHandler: the framework resolves the tool, validates the arguments   *)
(* against the registered shape and calls the handler.  env is what the    *)
(* handler's entry point can see: "context" the bound store, "extra" only  *)
(* the authInfo the framework passes, "headers" only the request headers.  *)
(***************************************************************************)
Envs == {"context", "extra", "headers"}

\* variant: the tools are registered without a shape, the framework calls
\* the handler with the arguments as they came
DispatchUnvalidated(c, env) ==
  /\ calls[c].pc = "dispatch"
  /\ LET rec == calls[c]
     IN calls' = [calls EXCEPT ![c] =
          IF rec.tool \notin RegisteredTools(rec.endpoint)
          THEN Failed(rec, "method_not_found", "Tool not found", {}, <<"tool_unknown">>)
          ELSE [rec EXCEPT !.pc = "handler", !.env = env,
                           !.trace = rec.trace \o <<"tool_resolved">>]]
  /\ UNCHANGED <<now, authCache, revokedAt, jwt>>

Dispatch(c, env) ==
  /\ calls[c].pc = "dispatch"
  /\ LET rec == calls[c]
         p == ShapeParse(rec.endpoint, rec.tool, rec.args)
     IN calls' = [calls EXCEPT ![c] =
          IF rec.tool \notin RegisteredTools(rec.endpoint)
          THEN Failed(rec, "method_not_found", "Tool not found", {}, <<"tool_unknown">>)
          ELSE IF ~p.ok
               THEN Failed(rec, "invalid_params", "Invalid arguments", p.issues,
                           <<"tool_resolved", "shape_fail">>)
               ELSE [rec EXCEPT !.pc = "handler", !.env = env,
                                !.trace = rec.trace \o <<"tool_resolved", "shape_ok">>]]
  /\ UNCHANGED <<now, authCache, revokedAt, jwt>>

\* variant: one message for a missing and for a refused credential
resolveAuthInfoErrorUniform(tokenFromHeaders) ==
  "Authentication is required. Provide a valid HITL.sh API key."

\* the message of the Error resolveAuthInfo throws: no bearer token in the
\* headers, or a token that getAuthInfoForToken did not accept
resolveAuthInfoError(tokenFromHeaders) ==
  IF tokenFromHeaders = ""
  THEN "Authentication is required. Provide a valid HITL.sh API key."
  ELSE "Authentication failed. Verify the HITL.sh API key."

\* variant: without a bound identity the handler goes straight to the
\* headers; the authInfo the framework passes is not looked at
McpToolHandlerHeadersOnly(c) ==
  /\ calls[c].pc = "handler"
  /\ calls[c].endpoint = "mcp"
  /\ LET rec == calls[c]
         contextualAuth == getStore(c)
         k == parseBearer(rec.header)
     IN calls' = [calls EXCEPT ![c] =
          IF contextualAuth.token # ""
          THEN AfterIdentity(rec, contextualAuth, <<"handler">>)
          ELSE IF k = ""
               THEN Failed(rec, "error", resolveAuthInfoError(k),
                           {}, <<"handler", "no_identity">>)
               ELSE IF CacheFresh(authCache[k], now)
                    THEN AfterIdentity(rec, authCache[k].authInfo,
                                       <<"handler", "cache_hit">>)
                    ELSE [rec EXCEPT !.pc = "resolve_wait",
                                     !.trace = rec.trace \o <<"handler">>
                                                 \o MissEvents(authCache[k])]]
  /\ UNCHANGED <<now, authCache, revokedAt, jwt>>

\* the /mcp tool handler, to its first await: createClient(extra) with
\* resolveAuthInfo, then parse, then the downstream request
McpToolHandler(c) ==
  /\ calls[c].pc = "handler"
  /\ calls[c].endpoint = "mcp"
  /\ LET rec == calls[c]
         contextualAuth == getStore(c)
         k == parseBearer(rec.header)
     IN calls' = [calls EXCEPT ![c] =
          IF contextualAuth.token # ""
          THEN AfterIdentity(rec, contextualAuth, <<"handler">>)
          ELSE IF rec.env = "extra" /\ rec.auth.token # ""
               THEN AfterIdentity(rec, rec.auth, <<"handler">>)
               ELSE IF k = ""
                    THEN Failed(rec, "error", resolveAuthInfoError(k),
                                {}, <<"handler", "no_identity">>)
                    ELSE IF CacheFresh(authCache[k], now)
                         THEN AfterIdentity(rec, authCache[k].authInfo,
                                            <<"handler", "cache_hit">>)
                         ELSE [rec EXCEPT !.pc = "resolve_wait",
                                          !.trace = rec.trace \o <<"handler">>
                                                      \o MissEvents(authCache[k])]]
  /\ UNCHANGED <<now, authCache, revokedAt, jwt>>

\* the introspection request of resolveAuthInfo's header fallback returns
McpResolveReturn(c, outcome) ==
  /\ calls[c].pc = "resolve_wait"
  /\ LET rec == calls[c]
         k == parseBearer(rec.header)
         a == AuthInfoFromOutcome(k, outcome)
     IN IF VerifierRaised(outcome)
        THEN /\ calls' = [calls EXCEPT ![c] =
                  Failed(rec, "error", ThrownInTry(outcome), {},
                         <<outcome, "verifier_raised">>)]
             /\ UNCHANGED authCache
        ELSE IF a = NoAuth
        THEN /\ calls' = [calls EXCEPT ![c] =
                  Failed(rec, "error", resolveAuthInfoError(k),
                         {}, <<outcome, "no_identity">>)]
             /\ UNCHANGED authCache
        ELSE /\ authCache' = CacheSet(authCache, k, a, now)
             /\ calls' = [calls EXCEPT ![c] = AfterIdentity(rec, a, <<outcome>>)]
  /\ UNCHANGED <<now, revokedAt, jwt>>

\* the /simple tool handler, to its first await
SimpleToolHandler(c) ==
  /\ calls[c].pc = "handler"
  /\ calls[c].endpoint = "simple"
  /\ LET rec == calls[c]
         req == requestGetStore(c)
         v == validateApiKeyAuth(req.header)
     IN calls' = [calls EXCEPT ![c] =
          IF ~req.present
          THEN Failed(rec, "error", "Request object not available", {}, <<"handler">>)
          ELSE IF ~v.ok
               THEN Failed(rec, "error", v.message, {}, <<"handler", "key_rejected">>)
               ELSE AfterClient(rec, NoAuth, v.key, <<"handler", "key_accepted">>)]
  /\ UNCHANGED <<now, authCache, revokedAt, jwt>>

(***************************************************************************)
(* The downstream request and the end of the handler.                      *)
(* An error value is [class, message, status]; class "value" is a thrown   *)
(* value that is not an Error.                                             *)
(***************************************************************************)
NoError == [class |-> "", message |-> "", status |-> NoStatus]

\* new HitlApiError(message, status, body)
HitlApiError(message, status) ==
  [class |-> "HitlApiError", message |-> message, status |-> status]

ErrorClasses == {"Error", "HitlApiError", "TypeError", "SyntaxError", "ZodError"}

\* the outcomes of a downstream request: a success envelope (with data of
\* the documented form, with a count that differs from the number of
\* elements, without data), a 2xx answer with an empty body, an envelope
\* with error = true (with and without msg), a non-2xx status with and
\* without msg in its body, a failed fetch, a fetch rejected with a value
\* that is not an Error
DownstreamOutcomes ==
  {"api_ok", "api_ok_miscount", "api_ok_no_data", "api_empty_body",
   "api_error_envelope", "api_error_no_msg", "api_http_404", "api_http_500",
   "api_network_error", "api_rejects_value"}

\* the data of a success envelope, by client method
UpstreamData(method, count) ==
  CASE method = "getLoops" ->
         Obj([loops |-> Arr(<<Str("loop_1"), Str("loop_2")>>), count |-> Num(count)])
    [] method = "listRequests" ->
         Obj([requests |-> Arr(<<Str("req_1"), Str("req_2")>>), count |-> Num(count),
              total |-> Num(5), has_more |-> Bool(TRUE)])
    [] OTHER -> Obj([id |-> Str("req_1")])

\* HitlClient.request: what the awaited client method throws, or the body
\* it returns
HitlClientRequest(method, outcome) ==
  CASE outcome = "api_ok" ->
         [thrown |-> NoError,
          body |-> Obj([error |-> Bool(FALSE), msg |-> Str("ok"),
                        data |-> UpstreamData(method, 2)])]
    [] outcome = "api_ok_miscount" ->
         [thrown |-> NoError,
          body |-> Obj([error |-> Bool(FALSE), msg |-> Str("ok"),
                        data |-> UpstreamData(method, 3)])]
    [] outcome = "api_ok_no_data" ->
         [thrown |-> NoError, body |-> Obj([error |-> Bool(FALSE), msg |-> Str("ok")])]
    [] outcome = "api_empty_body" -> [thrown |-> NoError, body |-> Undef]
    [] outcome = "api_error_envelope" ->
         [thrown |-> NoError,
          body |-> Obj([error |-> Bool(TRUE), msg |-> Str("Loop is archived")])]
    [] outcome = "api_error_no_msg" ->
         [thrown |-> NoError, body |-> Obj([error |-> Bool(TRUE), msg |-> Str("")])]
    [] outcome = "api_http_404" ->
         [thrown |-> HitlApiError("Request not found", 404), body |-> Undef]
    [] outcome = "api_http_500" ->
         [thrown |-> HitlApiError("HITL API request failed with status 500", 500),
          body |-> Undef]
    [] outcome = "api_network_error" ->
         [thrown |-> [class |-> "TypeError", message |-> "fetch failed",
                      status |-> NoStatus],
          body |-> Undef]
    [] OTHER ->
         [thrown |-> [class |-> "value", message |-> "", status |-> NoStatus],
          body |-> Undef]

\* reading property k of a value: a TypeError on undefined
ReadThrows(v) == v = Undef
Prop(v, k) == IF v.t = "object" THEN Get(v.f, k) ELSE Undef

\* variant: the envelope is returned whatever its error flag
normalizeEnvelopePassThrough(envelope) ==
  IF ReadThrows(envelope)
  THEN [class |-> "TypeError", message |-> "Cannot read properties of undefined",
        status |-> NoStatus]
  ELSE NoError

\* normalizeEnvelope: the error it throws, NoError when it returns the
\* envelope
normalizeEnvelope(envelope) ==
  IF ReadThrows(envelope)
  THEN [class |-> "TypeError", message |-> "Cannot read properties of undefined",
        status |-> NoStatus]
  ELSE IF Truthy(Prop(envelope, "error"))
       THEN [class |-> "Error",
             message |-> IF Truthy(Prop(envelope, "msg")) THEN Prop(envelope, "msg").s
                         ELSE "HITL API returned an error",
             status |-> NoStatus]
       ELSE NoError

\* variant: the handler of list_loops counts the loops itself
HandlerPayloadCountsLoops(tool, envelope) ==
  LET data == Prop(envelope, "data")
  IN IF tool = "list_loops" /\ ~ReadThrows(data) /\ Prop(data, "loops").t = "array"
     THEN [thrown |-> NoError,
           payload |-> Obj([message |-> Prop(envelope, "msg"),
                            loops |-> Prop(data, "loops"),
                            count |-> Num(Len(Prop(data, "loops").a))])]
     ELSE [thrown |-> NoError,
           payload |-> Obj([message |-> Prop(envelope, "msg"), data |-> data])]

\* the object literal a handler passes to formatContent; thrown is the
\* TypeError of reading a property of envelope.data when it is undefined
HandlerPayload(tool, envelope) ==
  LET data == Prop(envelope, "data")
      typeError == [class |-> "TypeError",
                    message |-> "Cannot read properties of undefined",
                    status |-> NoStatus]
  IN CASE tool = "list_loops" ->
            IF ReadThrows(data) THEN [thrown |-> typeError, payload |-> Undef]
            ELSE [thrown |-> NoError,
                  payload |-> Obj([message |-> Prop(envelope, "msg"),
                                   loops |-> Prop(data, "loops"),
                                   count |-> Prop(data, "count")])]
       [] tool = "list_requests" ->
            IF ReadThrows(data) THEN [thrown |-> typeError, payload |-> Undef]
            ELSE [thrown |-> NoError,
                  payload |-> Obj([message |-> Prop(envelope, "msg"),
                                   summary |-> Obj([count |-> Prop(data, "count"),
                                                    total |-> Prop(data, "total"),
                                                    has_more |-> Prop(data, "has_more")]),
                                   requests |-> Prop(data, "requests")])]
       [] OTHER ->
            [thrown |-> NoError,
             payload |-> Obj([message |-> Prop(envelope, "msg"), data |-> data])]

\* JSON.stringify(payload, null, 2): the value the text denotes; properties
\* whose value is undefined are left out
RECURSIVE JSONStringify(_)
JSONStringify(v) ==
  IF v.t = "object"
  THEN Obj([k \in {j \in DOMAIN v.f : v.f[j] # Undef} |-> JSONStringify(v.f[k])])
  ELSE v

\* formatContent(payload)
formatContent(payload) ==
  <<[type |-> "text", text |-> [t |-> "json_text", v |-> JSONStringify(payload)]]>>

\* variant: the status of a typed API error is dropped
normalizeErrorDropsStatus(error) ==
  IF error.class \in ErrorClasses
  THEN [class |-> "Error", message |-> error.message, status |-> NoStatus]
  ELSE [class |-> "Error", message |-> "Unexpected error occurred", status |-> NoStatus]

\* normalizeError(error): the Error the handler throws; a HitlApiError
\* becomes Error(`${message} (status ${status})`), any other Error is
\* thrown as it is
normalizeError(error) ==
  IF error.class = "HitlApiError"
  THEN [class |-> "Error", message |-> error.message, status |-> error.status]
  ELSE IF error.class \in ErrorClasses
       THEN [class |-> error.class, message |-> error.message, status |-> NoStatus]
       ELSE [class |-> "Error", message |-> "Unexpected error occurred",
             status |-> NoStatus]

\* catch (error) { throw normalizeError(error) }: the call ends with the
\* normalized error
Thrown(rec, error, events) ==
  LET e == normalizeError(error)
  IN [rec EXCEPT !.pc = "done",
                 !.result = [kind |-> "error", message |-> e.message, issues |-> {},
                             status |-> e.status, content |-> <<>>],
                 !.trace = rec.trace \o events]

\* variant: a downstream request that failed is issued once more
DownstreamReturnRetries(c, outcome) ==
  /\ calls[c].pc = "downstream_wait"
  /\ LET rec == calls[c]
         response == HitlClientRequest(rec.sent.method, outcome)
         again == /\ response.thrown # NoError
                  /\ Cardinality({i \in DOMAIN rec.trace :
                                    rec.trace[i] = "downstream_request"}) < 2
     IN calls' = [calls EXCEPT ![c] =
          IF again
          THEN [rec EXCEPT !.trace = rec.trace \o <<outcome, "downstream_request">>]
          ELSE IF response.thrown # NoError THEN Thrown(rec, response.thrown, <<outcome>>)
          ELSE IF normalizeEnvelope(response.body) # NoError
               THEN Thrown(rec, normalizeEnvelope(response.body), <<outcome>>)
               ELSE IF HandlerPayload(rec.tool, response.body).thrown # NoError
                    THEN Thrown(rec, HandlerPayload(rec.tool, response.body).thrown,
                                <<outcome>>)
                    ELSE [rec EXCEPT
                            !.pc = "done",
                            !.result = [kind |-> "success", message |-> "", issues |-> {},
                                        status |-> NoStatus,
                                        content |-> formatContent(
                                          HandlerPayload(rec.tool, response.body).payload)],
                            !.trace = rec.trace \o <<outcome, "response">>]]
  /\ UNCHANGED <<now, authCache, revokedAt, jwt>>

\* the downstream request returns and the handler finishes
DownstreamReturn(c, outcome) ==
  /\ calls[c].pc = "downstream_wait"
  /\ LET rec == calls[c]
         response == HitlClientRequest(rec.sent.method, outcome)
         refused == normalizeEnvelope(response.body)
         p == HandlerPayload(rec.tool, response.body)
     IN calls' = [calls EXCEPT ![c] =
          IF response.thrown # NoError THEN Thrown(rec, response.thrown, <<outcome>>)
          ELSE IF refused # NoError THEN Thrown(rec, refused, <<outcome>>)
          ELSE IF p.thrown # NoError THEN Thrown(rec, p.thrown, <<outcome>>)
          ELSE [rec EXCEPT !.pc = "done",
                           !.result = [kind |-> "success", message |-> "", issues |-> {},
                                       status |-> NoStatus,
                                       content |-> formatContent(p.payload)],
                           !.trace = rec.trace \o <<outcome, "response">>]]
  /\ UNCHANGED <<now, authCache, revokedAt, jwt>>

\* the call's asynchronous chain has completed: the run() scope ends, the
\* binding of the store is discarded and the request is forgotten
Complete(c) ==
  /\ calls[c].pc = "done"
  /\ calls' = [calls EXCEPT ![c] = IdleCall]
  /\ UNCHANGED <<now, authCache, revokedAt, jwt>>

\* a period of the clock passes; a call that has used its maxDuration is
\* aborted
Tick ==
  /\ now < MaxTime
  /\ now' = now + 1
  /\ calls' = [c \in CallIds |->
       IF calls[c].pc \in {"idle", "done"} THEN calls[c]
       ELSE IF calls[c].age >= maxDuration
            THEN Failed(calls[c], "error", "timeout", {}, <<"aborted">>)
            ELSE [calls[c] EXCEPT !.age = @ + 1]]
  /\ UNCHANGED <<authCache, revokedAt, jwt>>

(***************************************************************************)
(* The requests the environment sends                                      *)
(***************************************************************************)
ToolCall(tool, args) == [tool |-> tool, args |-> args]

ImageUrl == "https://example.com/a.png"

\* a create_request payload, complete but for the fields given as Undef
CreateArgs(loop, processing, type, timeout, image, platform, text) ==
  Present([loop_id |-> loop, processing_type |-> processing, type |-> type,
           priority |-> Str("high"), request_text |-> text,
           response_type |-> Str("single_select"),
           response_config |-> Obj("options" :> Arr(<<Str("A"), Str("B")>>)),
           timeout_seconds |-> timeout, image_url |-> image, platform |-> platform])

ValidCreate ==
  CreateArgs(Str("loop_1"), Str("deferred"), Str("markdown"), Undef, Undef, Undef,
             Str("Review this"))

CreateCalls ==
  {ToolCall("create_request", CreateArgs(l, p, ty, to, iu, Undef, Str("Review this"))) :
     l \in {Str("loop_1"), Str("")},
     p \in {Str("time-sensitive"), Str("deferred"), Str("urgent")},
     ty \in {Str("markdown"), Str("image")},
     to \in {Undef, Num(30), Num(0), Str("30")},
     iu \in {Undef, Str(ImageUrl), Str("")}}
  \cup
  {ToolCall("create_request", CreateArgs(Str("loop_1"), Str("deferred"), Str("markdown"),
                                         Undef, Undef, pl, rt)) :
     pl \in {Undef, Str("slack"), Str("")},
     rt \in {Str("Review this"), Str(MaxText), Str(LongText), Str(""), Undef}}

RequestIds == {Str("req_1"), Str("")}

UpdateCalls ==
  {ToolCall("update_request", Present([request_id |-> id, updates |-> u])) :
     id \in RequestIds,
     u \in {Undef, Obj(EmptyFields),
            Obj("priority" :> Str("high")),
            Obj("priority" :> Str("urgent")),
            Obj("processing_type" :> Str("time-sensitive")),
            Obj("request_text" :> Str("")),
            Obj("reviewer" :> Str("bob")),
            Obj(("reviewer" :> Str("bob")) @@ ("priority" :> Str("high")))}}

FeedbackCalls ==
  {ToolCall("add_request_feedback", Present([request_id |-> id, feedback |-> f])) :
     id \in RequestIds,
     f \in {Undef, Obj(EmptyFields),
            Obj("rating" :> Num(5)),
            Obj("rating" :> Num(6)),
            Obj("mood" :> Str("fine"))}}

OtherCalls ==
  {ToolCall("list_loops", EmptyFields),
   ToolCall("no_such_tool", EmptyFields),
   ToolCall("list_requests", EmptyFields),
   ToolCall("list_requests", [status |-> Str("pending"), limit |-> Num(10)]),
   ToolCall("list_requests", [limit |-> Num(0)]),
   ToolCall("list_requests", [limit |-> Num(101)]),
   ToolCall("list_requests", [status |-> Str("open")]),
   ToolCall("list_requests", [offset |-> Num(0 - 1)]),
   ToolCall("cancel_request", [request_id |-> Str("req_1"), reason |-> Str("duplicate")]),
   ToolCall("cancel_request", [request_id |-> Str("req_1"), reason |-> Str("")])}
  \cup
  {ToolCall(t, Present([request_id |-> id])) :
     t \in {"get_request", "delete_request", "cancel_request"},
     id \in RequestIds \cup {Undef}}

AllToolCalls == CreateCalls \cup UpdateCalls \cup FeedbackCalls \cup OtherCalls

AllHeaders ==
  {NoHeader, Bearer("hitl_live_a"), Bearer("sk_live_c"),
   [scheme |-> "bearer", token |-> "hitl_live_a"],
   [scheme |-> "Basic", token |-> "hitl_live_a"]}

\* the requests of the concurrent specification
CoreHeaders == {NoHeader, Bearer("hitl_live_a"), Bearer("hitl_test_b")}

CoreToolCalls == {ToolCall("list_loops", EmptyFields)}

(***************************************************************************)
(* Spec: the calls of CallIds in flight at once on /mcp, with the clock.    *)
(* SpecTool: one call at a time on either endpoint, with every request of  *)
(* AllToolCalls and AllHeaders; its clock stands still, so no cache entry  *)
(* expires and the header fallback of resolveAuthInfo, which follows a     *)
(* successful verification at the gate, always finds a fresh entry.        *)
(* A completed chain is forgotten before anything else happens: nothing    *)
(* reads the record of a completed call.                                   *)
(***************************************************************************)
Settled == \A c \in CallIds : calls[c].pc # "done"

Step(c) ==
  \/ \E o \in UpstreamAnswers(McpBearerToken(calls[c].header)) : McpVerifyReturn(c, o)
  \/ \E env \in Envs : Dispatch(c, env)
  \/ McpToolHandler(c)
  \/ \E o \in DownstreamOutcomes : DownstreamReturn(c, o)

Next ==
  \/ \E c \in CallIds : Complete(c)
  \/ \E c \in CallIds, h \in CoreHeaders, tc \in CoreToolCalls :
       Settled /\ McpAuthHandler(c, h, tc.tool, tc.args)
  \/ \E c \in CallIds : \E o \in UpstreamAnswers(McpBearerToken(calls[c].header)) :
       Settled /\ McpVerifyReturn(c, o)
  \/ \E c \in CallIds, env \in Envs : Settled /\ Dispatch(c, env)
  \/ \E c \in CallIds : Settled /\ McpToolHandler(c)
  \/ \E c \in CallIds : \E o \in UpstreamAnswers(parseBearer(calls[c].header)) :
       Settled /\ McpResolveReturn(c, o)
  \/ \E c \in CallIds, o \in DownstreamOutcomes : Settled /\ DownstreamReturn(c, o)
  \/ Settled /\ Tick

Spec == Init /\ [][Next]_vars

NextTool ==
  \/ \E h \in AllHeaders, tc \in AllToolCalls : McpAuthHandler(1, h, tc.tool, tc.args)
  \/ \E h \in AllHeaders, tc \in AllToolCalls : SimpleHandler(1, h, tc.tool, tc.args)
  \/ Step(1)
  \/ SimpleToolHandler(1)
  \/ Complete(1)

SpecTool == Init /\ [][NextTool]_vars

(***************************************************************************)
(* Properties.  Has, Count and the two orderings read a call's history.    *)
(***************************************************************************)
Has(tr, e) == \E i \in DOMAIN tr : tr[i] = e

Count(tr, e) == Cardinality({i \in DOMAIN tr : tr[i] = e})

\* every occurrence of an event of late has an event of early before it
Precedes(tr, early, late) ==
  \A j \in DOMAIN tr : tr[j] \in late => \E i \in 1 .. (j - 1) : tr[i] \in early

\* the events a step appends to the history of call c
NewEvents(c) ==
  IF Len(calls'[c].trace) > Len(calls[c].trace)
  THEN SubSeq(calls'[c].trace, Len(calls[c].trace) + 1, Len(calls'[c].trace))
  ELSE <<>>

VerifyFailures == VerifyOutcomes \ {"key_valid"}

\* what a call does once it has an identity
IdentityEvents ==
  {"identity", "context", "tool_resolved", "tool_unknown", "shape_ok", "shape_fail",
   "handler", "client", "parse_ok", "parse_fail", "downstream_request"}

(***************************************************************************)
(* C1.  When the upstream verification of a call's credential fails (an    *)
(* error envelope, a non-2xx status, a failed request), the call gets no   *)
(* Identity Record from it, creates no downstream client and issues no     *)
(* downstream request, and after the failed answer it does nothing but     *)
(* refuse.  When the failure is at the gate, no execution context is bound *)
(* and no tool handler body runs; when it is in the header fallback of     *)
(* resolveAuthInfo, the handler that was running stops there.              *)
(***************************************************************************)
C1_FailedVerificationStopsCall ==
  \A c \in CallIds :
    LET rec == calls[c]
        tr == rec.trace
    IN \A i \in DOMAIN tr :
         tr[i] \in VerifyFailures =>
           /\ \A j \in (i + 1) .. Len(tr) : tr[j] = "no_identity"
           /\ rec.ident = NoAuth /\ rec.clientKey = "" /\ rec.sent = NoCall
           /\ rec.result.kind \in {"unauthorized", "error"}
           /\ ~Has(SubSeq(tr, 1, i), "context") =>
                /\ rec.auth = NoAuth /\ ~rec.bound
                /\ \A j \in DOMAIN tr : tr[j] \notin IdentityEvents
           /\ Has(SubSeq(tr, 1, i), "context") =>
                /\ Has(SubSeq(tr, 1, i), "handler")
                /\ rec.result.message = "Authentication failed. Verify the HITL.sh API key."

\* a call refused at the gate after a failed verification
C1_Witness ==
  \E c \in CallIds :
    /\ calls[c].pc = "done" /\ calls[c].result.kind = "unauthorized"
    /\ \E o \in VerifyFailures : Has(calls[c].trace, o)

\* C1 as stated: a failed verification means that no tool handler body runs
\* for the call at all
C1_NoHandlerAfterFailedVerification ==
  \A c \in CallIds :
    (\E o \in VerifyFailures : Has(calls[c].trace, o)) =>
      /\ calls[c].ident = NoAuth /\ calls[c].sent = NoCall
      /\ ~Has(calls[c].trace, "handler")

(***************************************************************************)
(* C2.  Whatever other call is in flight, the identity a call's handler    *)
(* resolves, the credential of the client it creates and the credential of *)
(* the downstream request it sends are those of its own bearer token.      *)
(***************************************************************************)
C2_OwnIdentityOnly ==
  \A c \in CallIds :
    LET rec == calls[c]
        k == McpBearerToken(rec.header)
    IN /\ rec.auth # NoAuth => rec.auth = [token |-> k, clientId |-> AccountOf(k)]
       /\ rec.ident # NoAuth => rec.ident = [token |-> k, clientId |-> AccountOf(k)]
       /\ rec.clientKey # "" => rec.clientKey = k
       /\ rec.sent # NoCall => rec.sent.key = k

\* two calls with different verified credentials, both with a downstream
\* request in flight
C2_Witness ==
  /\ calls[1].pc = "downstream_wait" /\ calls[2].pc = "downstream_wait"
  /\ calls[1].ident # NoAuth /\ calls[2].ident # NoAuth
  /\ calls[1].ident.token # calls[2].ident.token

(***************************************************************************)
(* C3.  A lookup is served from the cache only while the clock is strictly *)
(* before the entry's expiry, and what it serves is the entry's record.    *)
(***************************************************************************)
C3_CacheServedOnlyBeforeExpiry ==
  [][\A c \in CallIds :
       Has(NewEvents(c), "cache_hit") =>
         LET entry == authCache[McpBearerToken(calls'[c].header)]
         IN /\ entry # NoEntry
            /\ now < entry.expiresAt
            /\ entry.authInfo \in {calls'[c].auth, calls'[c].ident}]_vars

\* a lookup served in the last period before the entry expires
C3_Witness ==
  \E c \in CallIds :
    /\ calls[c].pc = "dispatch" /\ calls[c].trace[1] = "cache_hit"
    /\ authCache[McpBearerToken(calls[c].header)].expiresAt = now + 1

(***************************************************************************)
(* C4.  A call whose lookup finds an expired entry sends exactly one       *)
(* verification request, and every identity it gets afterwards follows the *)
(* valid answer to that request.                                           *)
(***************************************************************************)
C4_ExpiredEntryVerifiedOnce ==
  \A c \in CallIds :
    LET tr == calls[c].trace
    IN \A i \in DOMAIN tr :
         tr[i] = "cache_expired" =>
           /\ Count(tr, "verify_request") = 1
           /\ tr[i + 1] = "verify_request"
           /\ \A j \in (i + 1) .. Len(tr) :
                tr[j] \in {"identity", "cache_hit"} =>
                  \E m \in (i + 2) .. (j - 1) : tr[m] = "key_valid"

\* a call that found an expired entry, verified again and was served
C4_Witness ==
  \E c \in CallIds :
    /\ Has(calls[c].trace, "cache_expired")
    /\ calls[c].pc = "done" /\ calls[c].result.kind = "success"

\* the payload breaks a rule of the tool's contract: a field-level rule of
\* the registered shape or a rule of the full schema
Violates(endpoint, tool, args) ==
  /\ tool \in RegisteredTools(endpoint)
  /\ LET s == ShapeParse(endpoint, tool, args)
     IN ~s.ok \/ ~HandlerParse(tool, s.value).ok

\* the call ended with a validation failure, raised by the framework or by
\* the handler
ValidationFailed(rec) ==
  \/ rec.result.kind = "invalid_params"
  \/ rec.result.kind = "error" /\ rec.result.message = "validation"

\* the validation of the call's payload has run to its end
ValidationCompleted(rec) ==
  Has(rec.trace, "shape_fail") \/ Has(rec.trace, "parse_ok") \/ Has(rec.trace, "parse_fail")

(***************************************************************************)
(* C5.  A call whose payload breaks a field-level or cross-field rule of   *)
(* its tool's contract never invokes a tool method of the downstream       *)
(* client: no request is sent and no answer comes back.                    *)
(***************************************************************************)
C5_InvalidPayloadNeverReachesClient ==
  \A c \in CallIds :
    LET rec == calls[c]
    IN (rec.pc # "idle" /\ Violates(rec.endpoint, rec.tool, rec.args)) =>
         /\ rec.sent = NoCall
         /\ rec.pc # "downstream_wait"
         /\ \A i \in DOMAIN rec.trace :
              rec.trace[i] \notin {"downstream_request"} \cup DownstreamOutcomes

\* a payload that passes the registered shape and breaks a rule of the full
\* schema: the handler created its client and stopped
C5_Witness ==
  \E c \in CallIds :
    /\ calls[c].pc = "done" /\ calls[c].clientKey # ""
    /\ ShapeParse(calls[c].endpoint, calls[c].tool, calls[c].args).ok
    /\ Violates(calls[c].endpoint, calls[c].tool, calls[c].args)
    /\ ValidationFailed(calls[c])

(***************************************************************************)
(* C6.  A call that ends with a validation failure has sent no downstream  *)
(* request.  A verification request can precede the failure, on /mcp only, *)
(* where a lookup that finds no fresh entry sends one; on /simple none is  *)
(* ever sent.                                                              *)
(***************************************************************************)
C6_ValidationFailsBeforeDownstream ==
  \A c \in CallIds :
    LET rec == calls[c]
        tr == rec.trace
    IN ValidationFailed(rec) =>
         /\ rec.sent = NoCall
         /\ \A i \in DOMAIN tr : tr[i] \notin {"downstream_request"} \cup DownstreamOutcomes
         /\ Has(tr, "verify_request") => rec.endpoint = "mcp"

\* a validation failure on /mcp that followed a verification request
C6_Witness ==
  \E c \in CallIds :
    /\ ValidationFailed(calls[c])
    /\ calls[c].endpoint = "mcp"
    /\ Has(calls[c].trace, "verify_request")

\* C6 as stated: neither a verification request nor a downstream request
\* precedes a validation failure
C6_NoNetworkCallBeforeValidationFailure ==
  \A c \in CallIds :
    ValidationFailed(calls[c]) =>
      /\ ~Has(calls[c].trace, "verify_request")
      /\ ~Has(calls[c].trace, "downstream_request")

\* a verification of the call's credential has succeeded
VerifiedEvents == {"cache_hit", "key_valid", "key_accepted"}

\* the events of the validation of the payload
ValidationEvents == {"shape_ok", "shape_fail", "parse_ok", "parse_fail"}

\* each stage of the list has happened before any event of the next one
InOrder(tr, stages) ==
  \A n \in 1 .. (Len(stages) - 1) : Precedes(tr, stages[n], stages[n + 1])

(***************************************************************************)
(* C7.  Within every call on /mcp the order is: verification at the gate,  *)
(* binding of the identity context, validation against the registered      *)
(* shape, the handler, its identity and client, validation against the     *)
(* full schema, the downstream request.  On /simple the request context is *)
(* bound first, the registered shape is validated next, and the key is     *)
(* checked inside the handler, before the client, the full schema and the  *)
(* downstream request.  No step starts before the one before it succeeded. *)
(***************************************************************************)
C7_StepsInOrder ==
  \A c \in CallIds :
    LET rec == calls[c]
        tr == rec.trace
    IN /\ rec.endpoint = "mcp" /\ rec.pc # "idle" =>
            InOrder(tr, <<{"cache_hit", "key_valid"}, {"identity"}, {"context"},
                          {"tool_resolved"}, {"shape_ok"}, {"handler"}, {"client"},
                          {"parse_ok"}, {"downstream_request"}>>)
       /\ rec.endpoint = "mcp" =>
            Precedes(tr, {"context"}, {"tool_unknown", "shape_fail", "parse_fail"})
       /\ rec.endpoint = "simple" =>
            /\ InOrder(tr, <<{"context"}, {"tool_resolved"}, {"shape_ok"}, {"handler"},
                             {"key_accepted"}, {"client"}, {"parse_ok"},
                             {"downstream_request"}>>)
            /\ tr # <<>> => tr[1] = "context"
            /\ Precedes(tr, {"shape_ok"}, {"key_rejected"})

\* a call on /simple whose key was accepted after the validation of the
\* registered shape, and a downstream request sent
C7_Witness ==
  \E c \in CallIds :
    /\ calls[c].endpoint = "simple" /\ calls[c].pc = "downstream_wait"
    /\ Has(calls[c].trace, "key_accepted")

\* C7 as stated: verification, then the context, then all of the
\* validation, then the downstream request
C7_VerificationContextValidationDownstream ==
  \A c \in CallIds :
    LET tr == calls[c].trace
    IN /\ Precedes(tr, VerifiedEvents, {"context"})
       /\ Precedes(tr, {"context"}, ValidationEvents)
       /\ Precedes(tr, {"parse_ok"}, {"downstream_request"})
       /\ \A i \in DOMAIN tr :
            tr[i] \in ValidationEvents =>
              \A j \in (i + 1) .. Len(tr) : tr[j] \notin VerifiedEvents \cup {"key_rejected"}

\* the request carries no bearer credential: no Authorization header, or one
\* of another scheme
NoCredential(h) == h = NoHeader \/ ToLowerCase(h.scheme) # "bearer"

\* the call was refused for want of a valid credential
AuthenticationFailure(rec) ==
  \/ rec.result.kind = "unauthorized"
  \/ /\ rec.result.kind = "error"
     /\ rec.result.message \in
          {"HITL API Key Required", "Invalid HITL API Key Format",
           "Authentication is required. Provide a valid HITL.sh API key.",
           "Authentication failed. Verify the HITL.sh API key."}

(***************************************************************************)
(* C8.  A request without a bearer credential never gets a client or a     *)
(* downstream request.  On /mcp it is refused at the gate, before the tool *)
(* name is resolved, before any validation and before any handler, for     *)
(* every tool name and every payload.  On /simple the credential is looked *)
(* at inside the tool handler: an unknown tool is answered "not found", a  *)
(* payload that fails the registered shape is answered "invalid", and only *)
(* a known tool with a valid shape reaches the handler, which refuses with *)
(* "HITL API Key Required" (or finds no request to read the header from).  *)
(***************************************************************************)
C8_NoCredentialRefused ==
  \A c \in CallIds :
    LET rec == calls[c]
    IN (rec.pc # "idle" /\ NoCredential(rec.header)) =>
         /\ rec.sent = NoCall /\ rec.clientKey = "" /\ rec.ident = NoAuth
         /\ rec.endpoint = "mcp" =>
              /\ rec.pc = "done" /\ rec.result.kind = "unauthorized"
              /\ rec.trace = <<"no_identity">>
         /\ (rec.endpoint = "simple" /\ rec.pc = "done") =>
              IF rec.tool \notin RegisteredTools("simple")
              THEN rec.result.kind = "method_not_found" /\ ~Has(rec.trace, "handler")
              ELSE IF ~ShapeParse("simple", rec.tool, rec.args).ok
                   THEN rec.result.kind = "invalid_params" /\ ~Has(rec.trace, "handler")
                   ELSE /\ Has(rec.trace, "handler")
                        /\ rec.result.kind = "error"
                        /\ rec.result.message \in
                             {"HITL API Key Required", "Request object not available"}

\* a request without a credential, for a known tool and a valid payload,
\* refused on /mcp at the gate
C8_Witness ==
  \E c \in CallIds :
    /\ calls[c].pc = "done" /\ calls[c].endpoint = "mcp"
    /\ NoCredential(calls[c].header)
    /\ calls[c].tool = "create_request" /\ calls[c].args = ValidCreate
    /\ calls[c].result.kind = "unauthorized"

\* C8 as stated: the authentication failure comes before the tool name is
\* resolved, before any validation and before any handler
C8_RefusedBeforeToolResolution ==
  \A c \in CallIds :
    LET rec == calls[c]
    IN (rec.pc = "done" /\ NoCredential(rec.header)) =>
         /\ AuthenticationFailure(rec)
         /\ \A i \in DOMAIN rec.trace :
              rec.trace[i] \notin {"tool_resolved", "tool_unknown", "shape_ok",
                                   "shape_fail", "handler"}

\* the two cross-field violations of a create_request payload
MissingTimeout(args) ==
  /\ Get(args, "processing_type") = Str("time-sensitive")
  /\ Get(args, "timeout_seconds").t # "number"

MissingImage(args) ==
  Get(args, "type") = Str("image") /\ ~Truthy(Get(args, "image_url"))

IssueOn(rec, path) == \E i \in rec.result.issues : i.path = path

(***************************************************************************)
(* C9.  A create_request payload that is time-sensitive without a numeric  *)
(* timeout_seconds, or an image without an image_url, fails validation and *)
(* no createRequest is sent.  The failure carries an issue on the missing  *)
(* field when every field of the payload passes its own rule; when one     *)
(* does not, the registered shape rejects the payload with the issues of   *)
(* the fields alone.  A deferred markdown payload whose fields pass their  *)
(* rules is valid without either field.                                    *)
(***************************************************************************)
C9_CrossFieldRulesOfCreateRequest ==
  \A c \in CallIds :
    LET rec == calls[c]
        shapeOk == ShapeParse(rec.endpoint, "create_request", rec.args).ok
    IN (rec.tool = "create_request" /\ ValidationCompleted(rec)) =>
         /\ (MissingTimeout(rec.args) \/ MissingImage(rec.args)) =>
              /\ ValidationFailed(rec)
              /\ rec.sent = NoCall /\ ~Has(rec.trace, "downstream_request")
         /\ (MissingTimeout(rec.args) /\ shapeOk) => IssueOn(rec, "timeout_seconds")
         /\ (MissingImage(rec.args) /\ shapeOk) => IssueOn(rec, "image_url")
         /\ (~shapeOk) => rec.result.kind = "invalid_params"
         /\ ( /\ Get(rec.args, "processing_type") = Str("deferred")
              /\ Get(rec.args, "type") = Str("markdown")
              /\ Get(rec.args, "timeout_seconds") = Undef
              /\ Get(rec.args, "image_url") = Undef
              /\ shapeOk ) =>
              /\ Has(rec.trace, "parse_ok")
              /\ rec.sent.method = "createRequest"

\* a time-sensitive image payload with neither field, refused by the handler
\* with an issue on each
C9_Witness ==
  \E c \in CallIds :
    /\ calls[c].tool = "create_request" /\ calls[c].pc = "done"
    /\ MissingTimeout(calls[c].args) /\ MissingImage(calls[c].args)
    /\ Has(calls[c].trace, "parse_fail")
    /\ IssueOn(calls[c], "timeout_seconds") /\ IssueOn(calls[c], "image_url")

\* C9 as stated: every such payload fails with an issue on the missing field
C9_IssueOnTheMissingField ==
  \A c \in CallIds :
    LET rec == calls[c]
    IN (rec.tool = "create_request" /\ ValidationCompleted(rec)) =>
         /\ MissingTimeout(rec.args) =>
              ValidationFailed(rec) /\ IssueOn(rec, "timeout_seconds") /\ rec.sent = NoCall
         /\ MissingImage(rec.args) =>
              ValidationFailed(rec) /\ IssueOn(rec, "image_url") /\ rec.sent = NoCall

\* updates has a field of the create_request field set with a valid value
HasValidField(u) ==
  /\ u.t = "object"
  /\ \E k \in DOMAIN u.f \cap DOMAIN createRequestFieldsSchema :
       FieldStatus(createRequestFieldsSchema[k], u.f[k]) = "valid"

AtLeastOneField(rec) ==
  \E i \in rec.result.issues : i.message = "Provide at least one field to update"

RequestedBody(args) ==
  LET rest == [k \in DOMAIN args \ {"loop_id"} |-> args[k]]
  IN IF "platform" \in DOMAIN args THEN rest ELSE ("platform" :> Str("api")) @@ rest

(***************************************************************************)
(* C11.  The createRequest call of a valid create_request payload gets     *)
(* loop_id as its loop argument and, as its body, the supplied fields      *)
(* other than loop_id, with platform "api" when platform was omitted and   *)
(* the supplied platform whenever one was supplied.                        *)
(***************************************************************************)
C11_CreateRequestGetsTheSuppliedFields ==
  \A c \in CallIds :
    LET rec == calls[c]
    IN rec.sent.method = "createRequest" =>
         /\ rec.sent.id = Get(rec.args, "loop_id")
         /\ rec.sent.body = Obj(RequestedBody(rec.args))

(***************************************************************************)
(* C12.  getAuthInfoForToken never throws: whatever the upstream answers,  *)
(* the verification of a call ends with an Identity Record or with "no     *)
(* identity", and with "no identity" for every answer that is a failure (a *)
(* non-2xx status, a 401, a failed request, an error envelope, a body that *)
(* does not parse or is not JSON).                                         *)
(***************************************************************************)
C12_VerifierNeverRaises ==
  \A c \in CallIds :
    LET rec == calls[c]
        tr == rec.trace
    IN /\ ~Has(tr, "verifier_raised")
       /\ rec.result.kind # "internal_error"
       /\ \A i \in DOMAIN tr :
            /\ tr[i] \in VerifyFailures =>
                 /\ i < Len(tr) /\ tr[i + 1] = "no_identity"
                 /\ AuthInfoFromOutcome(McpBearerToken(rec.header), tr[i]) = NoAuth
            /\ tr[i] = "key_valid" =>
                 /\ i < Len(tr) /\ tr[i + 1] = "identity"
                 /\ AuthInfoFromOutcome(McpBearerToken(rec.header), tr[i]) # NoAuth

\* a verification answered with a body that does not parse, ended with "no
\* identity"
C12_Witness ==
  \E c \in CallIds :
    /\ calls[c].pc = "done" /\ calls[c].result.kind = "unauthorized"
    /\ Has(calls[c].trace, "key_unparsable_body")

(***************************************************************************)
(* SpecRevoke: the calls of CallIds in flight at once on /mcp with one     *)
(* key, which the upstream API revokes at some time.  The upstream answers *)
(* "valid" or with a 401 before the revocation, with a 401 after it.       *)
(***************************************************************************)
RevokedKey == "hitl_live_a"

\* the upstream API revokes the key
Revoke ==
  /\ revokedAt[RevokedKey] = NotRevoked
  /\ revokedAt' = [revokedAt EXCEPT ![RevokedKey] = now]
  /\ UNCHANGED <<now, authCache, calls, jwt>>

RevokeAnswers(c) ==
  UpstreamAnswers(McpBearerToken(calls[c].header)) \cap {"key_valid", "key_http_401"}

NextRevoke ==
  \/ \E c \in CallIds : Complete(c)
  \/ \E c \in CallIds, tc \in CoreToolCalls :
       Settled /\ McpAuthHandler(c, Bearer(RevokedKey), tc.tool, tc.args)
  \/ \E c \in CallIds : \E o \in RevokeAnswers(c) : Settled /\ McpVerifyReturn(c, o)
  \/ \E c \in CallIds, env \in Envs : Settled /\ Dispatch(c, env)
  \/ \E c \in CallIds : Settled /\ McpToolHandler(c)
  \/ \E c \in CallIds : \E o \in RevokeAnswers(c) : Settled /\ McpResolveReturn(c, o)
  \/ \E c \in CallIds : Settled /\ DownstreamReturn(c, "api_ok")
  \/ Settled /\ Tick
  \/ Settled /\ Revoke

SpecRevoke == Init /\ [][NextRevoke]_vars

\* the time at which an in-flight call began
BeganAt(c) == now - calls[c].age

(***************************************************************************)
(* C13.  Once the upstream API has revoked a key at time r, no call that   *)
(* begins at or after r + TTL is authenticated with that key: it gets no   *)
(* identity at the gate, none in its handler, and no client.               *)
(***************************************************************************)
C13_RevokedKeyRefusedAfterTtl ==
  \A c \in CallIds :
    LET rec == calls[c]
        k == McpBearerToken(rec.header)
    IN ( /\ rec.pc \notin {"idle", "done"}
         /\ k \in Keys /\ revokedAt[k] # NotRevoked
         /\ BeganAt(c) >= revokedAt[k] + AUTH_CACHE_TTL_MS ) =>
         /\ rec.auth = NoAuth /\ rec.ident = NoAuth /\ rec.clientKey = ""
         /\ ~Has(rec.trace, "cache_hit") /\ ~Has(rec.trace, "identity")

\* a call that began at r + TTL or later with the revoked key, found the
\* entry expired and asked the upstream API
C13_Witness ==
  \E c \in CallIds :
    /\ calls[c].pc = "gate_wait"
    /\ Has(calls[c].trace, "cache_expired")
    /\ revokedAt[RevokedKey] # NotRevoked
    /\ BeganAt(c) >= revokedAt[RevokedKey] + AUTH_CACHE_TTL_MS


(***************************************************************************)
(* Error normalization                                                     *)
(***************************************************************************)
Last(tr) == IF Len(tr) = 0 THEN "" ELSE tr[Len(tr)]

\* the call ended with a thrown error of that message and status suffix,
\* and no content
EndedWith(rec, message, status) ==
  /\ rec.result.kind = "error"
  /\ rec.result.message = message
  /\ rec.result.status = status
  /\ rec.result.content = <<>>

\* C14: when the downstream client throws a typed API error with message m
\* and status s, the error the handler surfaces carries m and s; an ordinary
\* Error (a failed validation, a failed authentication, a failed fetch) is
\* surfaced with its message unchanged and no status; a thrown value that is
\* not an Error is surfaced as the one generic error
C14_ErrorsAreNormalized ==
  \A c \in CallIds :
    LET rec == calls[c]
        last == Last(rec.trace)
    IN rec.pc = "done" =>
         /\ last = "api_http_404" => EndedWith(rec, "Request not found", 404)
         /\ last = "api_http_500" =>
              EndedWith(rec, "HITL API request failed with status 500", 500)
         /\ last = "api_network_error" => EndedWith(rec, "fetch failed", NoStatus)
         /\ last = "api_rejects_value" =>
              EndedWith(rec, "Unexpected error occurred", NoStatus)
         /\ last = "parse_fail" => EndedWith(rec, "validation", NoStatus)
         /\ (last = "no_identity" /\ Has(rec.trace, "handler")) =>
              \/ EndedWith(rec, "Authentication is required. Provide a valid HITL.sh API key.",
                           NoStatus)
              \/ EndedWith(rec, "Authentication failed. Verify the HITL.sh API key.",
                           NoStatus)

C14_Witness ==
  \E c \in CallIds :
    /\ calls[c].pc = "done"
    /\ Last(calls[c].trace) = "api_http_404"
    /\ calls[c].sent.method = "getRequest"
    /\ calls[c].result.status = 404
    /\ calls[c].result.message = "Request not found"


(***************************************************************************)
(* The two ends of a tool call                                             *)
(***************************************************************************)
\* a success envelope: one block, of type "text", whose text is JSON
SuccessEnvelope(rec) ==
  /\ rec.result.kind = "success"
  /\ Len(rec.result.content) = 1
  /\ rec.result.content[1].type = "text"
  /\ rec.result.content[1].text.t = "json_text"
  /\ rec.result.message = ""

ThrownError(rec) ==
  /\ rec.result.kind \in {"error", "invalid_params", "method_not_found"}
  /\ rec.result.content = <<>>

ErrorEnvelopes == {"api_error_envelope", "api_error_no_msg"}

\* C15: a tool call ends either with a success envelope of exactly one
\* "text" block holding the JSON text of the payload, or with a thrown error
\* and no content, never both; an upstream envelope with error = true ends
\* as a thrown error although the HTTP answer was 2xx (a call the platform
\* cuts off at maxDuration has no end of its own)
C15_SuccessEnvelopeOrThrownError ==
  \A c \in CallIds :
    LET rec == calls[c]
        last == Last(rec.trace)
    IN (rec.pc = "done" /\ Has(rec.trace, "context") /\ last # "aborted") =>
         /\ SuccessEnvelope(rec) \/ ThrownError(rec)
         /\ ~(SuccessEnvelope(rec) /\ ThrownError(rec))
         /\ SuccessEnvelope(rec) <=> last = "response"
         /\ (last = "response" /\ rec.tool = "list_loops"
               /\ rec.trace[Len(rec.trace) - 1] = "api_ok") =>
              rec.result.content[1].text.v =
                Obj([message |-> Str("ok"),
                     loops |-> Arr(<<Str("loop_1"), Str("loop_2")>>),
                     count |-> Num(2)])
         /\ (last = "response" /\ rec.tool = "get_request"
               /\ rec.trace[Len(rec.trace) - 1] = "api_ok_no_data") =>
              rec.result.content[1].text.v = Obj([message |-> Str("ok")])
         /\ last = "api_error_envelope" => EndedWith(rec, "Loop is archived", NoStatus)
         /\ last = "api_error_no_msg" =>
              EndedWith(rec, "HITL API returned an error", NoStatus)

C15_Witness ==
  \E c \in CallIds :
    /\ calls[c].pc = "done"
    /\ Last(calls[c].trace) \in ErrorEnvelopes
    /\ calls[c].tool = "create_request"
    /\ ThrownError(calls[c])


(***************************************************************************)
(* The message of a handler that obtains no identity                       *)
(***************************************************************************)
\* the handler ran and createClient threw: no identity, no client
NoIdentityInHandler(rec) ==
  /\ rec.pc = "done"
  /\ Has(rec.trace, "handler")
  /\ Last(rec.trace) \in {"no_identity", "key_rejected"}

\* the messages of the model that begin with "Authentication is required"
BeginsWithAuthenticationIsRequired(message) ==
  message = "Authentication is required. Provide a valid HITL.sh API key."

DownstreamFailures == DownstreamOutcomes \ {"api_ok", "api_ok_miscount", "api_ok_no_data"}

\* no event of again follows an event of failures in the history tr
NeverAgain(tr, failures, again) ==
  \A i, j \in DOMAIN tr : (i < j /\ tr[i] \in failures) => tr[j] # again

\* C17: a call issues at most one credential-verification request and at
\* most one downstream request, and no request follows a failed one of its
\* kind within the call
C17_NothingIsRetried ==
  \A c \in CallIds :
    LET tr == calls[c].trace
    IN /\ Count(tr, "verify_request") <= 1
       /\ Count(tr, "downstream_request") <= 1
       /\ Count(tr, "client") <= 1
       /\ NeverAgain(tr, VerifyFailures, "verify_request")
       /\ NeverAgain(tr, DownstreamFailures, "downstream_request")

C17_Witness ==
  \E c \in CallIds :
    /\ calls[c].pc = "done"
    /\ Has(calls[c].trace, "cache_expired")
    /\ Count(calls[c].trace, "verify_request") = 1
    /\ Count(calls[c].trace, "downstream_request") = 1
    /\ Last(calls[c].trace) = "api_http_500"


(***************************************************************************)
(* The payload of list_loops                                               *)
(***************************************************************************)
\* the call ended with a success envelope of list_loops
ListLoopsSucceeded(rec) ==
  /\ rec.pc = "done"
  /\ rec.tool = "list_loops"
  /\ rec.result.kind = "success"

\* the value of the JSON text of the success envelope
PayloadOf(rec) == rec.result.content[1].text.v

\* the upstream answer the call ended on
AnswerOf(rec) == rec.trace[Len(rec.trace) - 1]

\* C18 as stated: the payload of every successful list_loops call has a
\* loops array and a count equal to the number of elements of loops
C18_CountIsTheNumberOfLoops ==
  \A c \in CallIds :
    ListLoopsSucceeded(calls[c]) =>
      LET v == PayloadOf(calls[c])
      IN /\ {"loops", "count"} \subseteq DOMAIN v.f
         /\ v.f.loops.t = "array"
         /\ v.f.count = Num(Len(v.f.loops.a))

\* C18: the payload of every successful list_loops call holds the loops and
\* the count of the upstream envelope's data, unchanged: count is the number
\* of elements of loops exactly when the upstream count is
C18_LoopsAndCountAreTheUpstreamValues ==
  \A c \in CallIds :
    ListLoopsSucceeded(calls[c]) =>
      LET v == PayloadOf(calls[c])
          answer == AnswerOf(calls[c])
      IN /\ Len(calls[c].result.content) = 1
         /\ answer \in {"api_ok", "api_ok_miscount"}
         /\ v.f.message = Str("ok")
         /\ v.f.loops = Arr(<<Str("loop_1"), Str("loop_2")>>)
         /\ answer = "api_ok" => v.f.count = Num(2)
         /\ answer = "api_ok_miscount" => v.f.count = Num(3)

C18_Witness ==
  \E c \in CallIds :
    /\ ListLoopsSucceeded(calls[c])
    /\ AnswerOf(calls[c]) = "api_ok_miscount"
    /\ PayloadOf(calls[c]).f.count = Num(3)
    /\ Len(PayloadOf(calls[c]).f.loops.a) = 2


(***************************************************************************)
(* The key check of the simple endpoint                                    *)
(***************************************************************************)
\* the Authorization header is absent or does not start with "Bearer "
NotBearer(h) == h = NoHeader \/ h.scheme # "Bearer"

\* the key starts with neither "hitl_live_" nor "hitl_test_"
WrongPrefix(h) == h # NoHeader /\ h.token \notin {"hitl_live_a", "hitl_test_b"}

\* a call on /simple without a usable API key
SimpleWithoutKey(rec) ==
  /\ rec.pc # "idle"
  /\ rec.endpoint = "simple"
  /\ NotBearer(rec.header) \/ WrongPrefix(rec.header)

NoClient(rec) ==
  /\ rec.clientKey = ""
  /\ rec.sent = NoCall
  /\ \A i \in DOMAIN rec.trace :
       rec.trace[i] \notin {"client", "downstream_request"} \cup DownstreamOutcomes

KeyMessages == {"HITL API Key Required", "Invalid HITL API Key Format"}

\* C19 as stated: every call on /simple without a usable key fails with one
\* of the two documented key errors, and no client is created or called
C19_KeyErrorForEveryCallWithoutKey ==
  \A c \in CallIds :
    (SimpleWithoutKey(calls[c]) /\ calls[c].pc = "done") =>
      /\ calls[c].result.kind = "error"
      /\ calls[c].result.message \in KeyMessages
      /\ NoClient(calls[c])

\* C19: for a call on /simple without a usable key no downstream client is
\* created or called and the call fails; it fails with "HITL API Key
\* Required" (header absent or not "Bearer ...") or "Invalid HITL API Key
\* Format" (wrong prefix) when the handler runs with the request at hand,
\* with the framework's error when the tool is unknown or the arguments do
\* not match the registered shape, and with "Request object not available"
\* when the handler finds no request
C19_NoClientWithoutKey ==
  \A c \in CallIds :
    LET rec == calls[c]
    IN SimpleWithoutKey(rec) =>
         /\ NoClient(rec)
         /\ rec.pc \in {"dispatch", "handler", "done"}
         /\ rec.pc = "done" =>
              /\ rec.result.kind \in {"error", "method_not_found", "invalid_params"}
              /\ rec.result.content = <<>>
              /\ rec.result.kind = "method_not_found" <=> Has(rec.trace, "tool_unknown")
              /\ rec.result.kind = "invalid_params" <=> Has(rec.trace, "shape_fail")
              /\ rec.result.kind = "error" <=> Has(rec.trace, "handler")
              /\ (Has(rec.trace, "handler") /\ rec.env # "context") =>
                   rec.result.message = "Request object not available"
              /\ (Has(rec.trace, "handler") /\ rec.env = "context") =>
                   /\ Last(rec.trace) = "key_rejected"
                   /\ NotBearer(rec.header) => rec.result.message = "HITL API Key Required"
                   /\ ~NotBearer(rec.header) =>
                        rec.result.message = "Invalid HITL API Key Format"

C19_Witness ==
  \E c \in CallIds :
    /\ SimpleWithoutKey(calls[c])
    /\ calls[c].pc = "done"
    /\ calls[c].header = Bearer("sk_live_c")
    /\ calls[c].tool = "create_request"
    /\ calls[c].result.message = "Invalid HITL API Key Format"
    /\ NoClient(calls[c])


(***************************************************************************)
(* The credential of the downstream client                                 *)
(***************************************************************************)
\* the Credential Verifier accepted the credential before the client was
\* created: an upstream "valid" answer or an unexpired cache entry
AcceptedBeforeClient(tr) ==
  \A j \in DOMAIN tr :
    tr[j] = "client" => \E i \in 1 .. (j - 1) : tr[i] \in {"key_valid", "cache_hit"}

\* C20 as stated: every downstream client a handler creates is keyed by a
\* credential the Credential Verifier accepted earlier in the same call, on
\* every identity-resolution path and on both endpoints
C20_ClientKeyWasVerified ==
  \A c \in CallIds :
    LET rec == calls[c]
    IN Has(rec.trace, "client") =>
         /\ rec.clientKey # ""
         /\ AcceptedBeforeClient(rec.trace)

\* C20: on /mcp every downstream client a handler creates is keyed by the
\* bearer credential of the call, which the Credential Verifier accepted
\* (freshly or through an unexpired cache entry) earlier in the same call,
\* on each identity-resolution path; on /simple the client is keyed by the
\* key of the Authorization header after a check of its prefix only, and
\* the verifier is never asked
C20_VerifiedOnMcpPrefixCheckedOnSimple ==
  \A c \in CallIds :
    LET rec == calls[c]
    IN Has(rec.trace, "client") =>
         /\ rec.endpoint = "mcp" =>
              /\ rec.clientKey = McpBearerToken(rec.header)
              /\ rec.clientKey \in Keys
              /\ rec.ident = [token |-> rec.clientKey, clientId |-> AccountOf(rec.clientKey)]
              /\ AcceptedBeforeClient(rec.trace)
         /\ rec.endpoint = "simple" =>
              /\ rec.header.scheme = "Bearer"
              /\ rec.clientKey = rec.header.token
              /\ rec.clientKey \in {"hitl_live_a", "hitl_test_b"}
              /\ ~Has(rec.trace, "verify_request")
              /\ ~AcceptedBeforeClient(rec.trace)

C20_Witness ==
  \E c \in CallIds :
    /\ calls[c].endpoint = "mcp"
    /\ calls[c].env = "headers"
    /\ Has(calls[c].trace, "client")
    /\ Count(calls[c].trace, "cache_hit") = 1
    /\ Has(calls[c].trace, "key_valid")
    /\ calls[c].sent.key = "hitl_live_a"


(***************************************************************************)
(* The identity of a handler without a bound context                       *)
(***************************************************************************)
\* the events of the history that follow the start of the handler body
SinceHandler(tr) ==
  IF Has(tr, "handler")
  THEN SubSeq(tr, (CHOOSE i \in DOMAIN tr : tr[i] = "handler") + 1, Len(tr))
  ELSE <<>>

LookupEvents == {"cache_hit", "cache_expired", "verify_request"}

\* the handler body of a call on /mcp has run without a bound identity
RanUnbound(rec) ==
  /\ rec.endpoint = "mcp"
  /\ Has(rec.trace, "handler")
  /\ rec.env # "context"

\* the handler looked the credential up again, or failed for want of one
VerifiedAgain(rec) ==
  \/ \E i \in DOMAIN SinceHandler(rec.trace) : SinceHandler(rec.trace)[i] \in LookupEvents
  \/ /\ SinceHandler(rec.trace) = <<"no_identity">>
     /\ rec.result.kind = "error"

\* C21 as stated: a handler that runs with no bound context identity always
\* takes the bearer value of the headers and verifies it again
C21_UnboundHandlerAlwaysVerifiesAgain ==
  \A c \in CallIds : RanUnbound(calls[c]) => VerifiedAgain(calls[c])

\* C21: a handler that runs with no bound context identity uses the authInfo
\* the framework passes when it holds a token, without any lookup; only
\* otherwise it takes the bearer value of the headers and verifies it again
\* (cache first), failing with "Authentication is required ..." when the
\* headers yield no bearer value and with "Authentication failed ..." when
\* the verification returns no identity
C21_UnboundHandlerIdentity ==
  \A c \in CallIds :
    LET rec == calls[c]
        since == SinceHandler(rec.trace)
    IN RanUnbound(rec) =>
         /\ (rec.env = "extra" /\ rec.auth.token # "") =>
              /\ \A i \in DOMAIN since : since[i] \notin LookupEvents \cup {"no_identity"}
              /\ Has(since, "identity") /\ rec.ident = rec.auth
         /\ (rec.env = "headers" \/ rec.auth.token = "") =>
              /\ VerifiedAgain(rec)
              /\ parseBearer(rec.header) = "" =>
                   /\ since = <<"no_identity">>
                   /\ BeginsWithAuthenticationIsRequired(rec.result.message)
              /\ Has(since, "identity") =>
                   /\ rec.ident.token = parseBearer(rec.header)
                   /\ Has(since, "cache_hit") \/ Has(since, "key_valid")
              /\ (\E i \in DOMAIN since : since[i] \in VerifyFailures) =>
                   /\ rec.pc = "done" /\ Last(since) = "no_identity"
                   /\ rec.result.message = "Authentication failed. Verify the HITL.sh API key."
                   /\ rec.clientKey = ""

C21_Witness ==
  \E c \in CallIds :
    /\ RanUnbound(calls[c])
    /\ calls[c].env = "headers"
    /\ Has(SinceHandler(calls[c].trace), "verify_request")
    /\ Has(SinceHandler(calls[c].trace), "key_valid")
    /\ calls[c].ident.token = "hitl_live_a"


(***************************************************************************)
(* The entries of the verification cache                                   *)
(***************************************************************************)
\* the upstream answers from which getAuthInfoForToken builds an identity
AcceptingAnswers == {"key_valid", "key_no_error_flag", "key_no_account"}

\* call c was waiting for the answer to the introspection of k
AwaitsVerification(c, k) ==
  /\ calls[c].pc \in {"gate_wait", "resolve_wait"}
  /\ McpBearerToken(calls[c].header) = k

\* C22: under any interleaving of the calls, the entry stored under key k
\* holds an identity whose token is k, it is written only in the step in
\* which a call carrying k receives an accepting answer to the verification
\* of k, and a lookup for k yields an identity of k
C22_EntryOfKeyIsIdentityOfKey ==
  [][/\ \A k \in Keys :
          /\ authCache'[k] # NoEntry =>
               /\ authCache'[k].authInfo.token = k
               /\ authCache'[k].authInfo.clientId \in {AccountOf(k), NoClientId}
          /\ authCache'[k] # authCache[k] =>
               \E c \in CallIds :
                 /\ AwaitsVerification(c, k)
                 /\ \E o \in AcceptingAnswers : Has(NewEvents(c), o)
                 /\ authCache'[k].authInfo \in {calls'[c].auth, calls'[c].ident}
     /\ \A c \in CallIds :
          Has(NewEvents(c), "cache_hit") =>
            LET k == McpBearerToken(calls'[c].header)
            IN /\ authCache[k].authInfo.token = k
               /\ authCache[k].authInfo \in {calls'[c].auth, calls'[c].ident}]_vars

\* two keys of one account are cached, and a call is served from the cache
\* while the other call carries the other key
C22_Witness ==
  /\ authCache["hitl_live_a"] # NoEntry
  /\ authCache["hitl_test_b"] # NoEntry
  /\ authCache["hitl_live_a"].authInfo.token = "hitl_live_a"
  /\ \E c, d \in CallIds :
       /\ calls[c].header = Bearer("hitl_live_a") /\ Has(calls[c].trace, "cache_hit")
       /\ calls[d].header = Bearer("hitl_test_b") /\ calls[d].pc = "gate_wait"


\* C23: a step of a call that carries credential A (a lookup, a
\* verification, the write of its entry) leaves the entry of every other
\* credential B as it was, also when A and B belong to one account; the
\* entry of A it writes is A's own, with its own expiresAt
C23_OtherEntriesUntouched ==
  [][\A c \in CallIds :
       NewEvents(c) # <<>> =>
         LET a == McpBearerToken(calls'[c].header)
         IN /\ \A b \in Keys \ {a} : authCache'[b] = authCache[b]
            /\ (a \in Keys /\ authCache'[a] # authCache[a]) =>
                 /\ authCache'[a].authInfo.token = a
                 /\ authCache'[a].expiresAt = now + AUTH_CACHE_TTL_MS]_vars

\* two keys of one account with entries that expire at different times
C23_Witness ==
  /\ authCache["hitl_live_a"] # NoEntry
  /\ authCache["hitl_test_b"] # NoEntry
  /\ AccountOf("hitl_live_a") = AccountOf("hitl_test_b")
  /\ authCache["hitl_live_a"].authInfo.clientId = authCache["hitl_test_b"].authInfo.clientId
  /\ authCache["hitl_live_a"].expiresAt # authCache["hitl_test_b"].expiresAt


\* call c waits for the answer to a verification request it issued because
\* the entry of its credential had expired
AwaitsRefresh(c) ==
  /\ calls[c].pc \in {"gate_wait", "resolve_wait"}
  /\ Len(calls[c].trace) >= 2
  /\ calls[c].trace[Len(calls[c].trace) - 1] = "cache_expired"

\* the lookup of call c completes in this step: the answer has arrived
LookupCompletes(c) ==
  /\ NewEvents(c) # <<>>
  /\ NewEvents(c)[1] \in VerifyOutcomes

\* C24 as stated: when the lookup of a credential whose entry had expired
\* has completed, the cache holds a fresh entry for the credential, with an
\* expiresAt in the future, or no entry for it
C24_ExpiredEntryRefreshedOrEvicted ==
  [][\A c \in CallIds :
       (AwaitsRefresh(c) /\ LookupCompletes(c)) =>
         LET k == McpBearerToken(calls[c].header)
         IN \/ authCache'[k] = NoEntry
            \/ authCache'[k].expiresAt > now]_vars


\* C25: the TTL runs from the insertion: an entry is written with
\* expiresAt = now + TTL; a cache hit issues no verification request and
\* leaves the cache as it is; a hit is served only before expiresAt, that is
\* before insertion + TTL however often the entry was hit; and no entry ever
\* expires later than now + TTL
C25_TtlFixedAtInsertion ==
  [][/\ \A k \in Keys :
          /\ authCache'[k] # authCache[k] =>
               authCache'[k].expiresAt = now + AUTH_CACHE_TTL_MS
          /\ authCache'[k] # NoEntry => authCache'[k].expiresAt <= now' + AUTH_CACHE_TTL_MS
     /\ \A c \in CallIds :
          Has(NewEvents(c), "cache_hit") =>
            /\ ~Has(NewEvents(c), "verify_request")
            /\ calls'[c].pc \notin {"gate_wait", "resolve_wait"}
            /\ authCache' = authCache
            /\ now < authCache[McpBearerToken(calls'[c].header)].expiresAt]_vars

\* two calls served from one entry, the later one in the last period before
\* the entry expires
C25_Witness ==
  \E c, d \in CallIds :
    /\ c # d
    /\ calls[c].header = calls[d].header
    /\ Has(calls[c].trace, "cache_hit") /\ Has(calls[d].trace, "cache_hit")
    /\ calls[c].age = 1 /\ calls[d].age = 0
    /\ authCache[McpBearerToken(calls[c].header)].expiresAt = now + 1


(***************************************************************************)
(* SpecIntrospect: the calls of CallIds in flight at once on /mcp with one  *)
(* key, with the clock, where the upstream API may also answer the         *)
(* introspection with a 2xx JSON body that is not of the documented form.  *)
(***************************************************************************)
IntrospectionAnswers == VerifyOutcomes \cup MalformedAnswers

NextIntrospect ==
  \/ \E c \in CallIds : Complete(c)
  \/ \E c \in CallIds, tc \in CoreToolCalls :
       Settled /\ McpAuthHandler(c, Bearer("hitl_live_a"), tc.tool, tc.args)
  \/ \E c \in CallIds, o \in IntrospectionAnswers : Settled /\ McpVerifyReturn(c, o)
  \/ \E c \in CallIds, env \in Envs : Settled /\ Dispatch(c, env)
  \/ \E c \in CallIds : Settled /\ McpToolHandler(c)
  \/ \E c \in CallIds, o \in IntrospectionAnswers : Settled /\ McpResolveReturn(c, o)
  \/ \E c \in CallIds : Settled /\ DownstreamReturn(c, "api_ok")
  \/ Settled /\ Tick

SpecIntrospect == Init /\ [][NextIntrospect]_vars

\* C26 as stated: a malformed 2xx answer to the introspection (no error
\* flag, no data, no account identifier) yields "no identity" and no cache
\* entry, and the subject of every Identity Record is a defined account
\* identifier
C26_MalformedAnswerGivesNoIdentity ==
  /\ \A c \in CallIds :
       LET tr == calls[c].trace
       IN /\ \A i \in DOMAIN tr :
               tr[i] \in MalformedAnswers => (i < Len(tr) /\ tr[i + 1] = "no_identity")
          /\ calls[c].auth.clientId # NoClientId
          /\ calls[c].ident.clientId # NoClientId
  /\ \A k \in Keys : authCache[k].authInfo.clientId # NoClientId


(***************************************************************************)
(* The signed-token strategy: verifyAuth0Token                             *)
(* A bearer value is the sequence of its dot-separated segments, as        *)
(* bearerToken.split(".") returns them; the empty string is <<"">>.        *)
(* A segment is "header" (a base64url JWT header), "claims" (base64url of  *)
(* a JSON object), "text" (anything else) or "" (empty).                   *)
(***************************************************************************)
MaxSegments == 4

Segments == {"header", "claims", "text", ""}

BearerValues == UNION {[1 .. n -> Segments] : n \in 1 .. MaxSegments}

\* JSON.parse(Buffer.from(segment, "base64url").toString("utf-8")) returns
DecodesToJson(segment) == segment = "claims"

\* what jwtVerify can end with, after the key set was requested
JwtOutcomes(token) ==
  IF Len(token) = 3 /\ token[1] = "header" /\ token[3] # ""
  THEN {"jwt_valid", "jwt_invalid", "jwks_unreachable"}
  ELSE {"jwt_invalid", "jwks_unreachable"}

\* the verification ends
Verified(result, events) ==
  [jwt EXCEPT !.pc = "done", !.result = result, !.trace = jwt.trace \o events]

\* variant: the number of segments is not tested
verifyAuth0TokenWithoutFormatCheck(token) ==
  /\ jwt.pc = "idle"
  /\ jwt' =
       LET v == [jwt EXCEPT !.token = token]
       IN IF token = <<"">>
          THEN [v EXCEPT !.pc = "done", !.result = "undefined"]
          ELSE IF Len(token) < 2 \/ ~DecodesToJson(token[2])
               THEN [v EXCEPT !.pc = "done", !.result = "undefined",
                              !.trace = <<"split", "decode_threw">>]
               ELSE [v EXCEPT !.pc = "keys_wait",
                              !.trace = <<"split", "decoded", "jwks_request">>]
  /\ UNCHANGED <<now, authCache, calls, revokedAt>>

\* verifyAuth0Token(req, bearerToken), to its first await
verifyAuth0Token(token) ==
  /\ jwt.pc = "idle"
  /\ jwt' =
       LET v == [jwt EXCEPT !.token = token]
       IN IF token = <<"">>
          THEN [v EXCEPT !.pc = "done", !.result = "undefined"]
          ELSE IF Len(token) # 3
               THEN [v EXCEPT !.pc = "done", !.result = "undefined",
                              !.trace = <<"split", "invalid_format">>]
               ELSE IF ~DecodesToJson(token[2])
                    THEN [v EXCEPT !.pc = "done", !.result = "undefined",
                                   !.trace = <<"split", "decode_threw">>]
                    ELSE [v EXCEPT !.pc = "keys_wait",
                                   !.trace = <<"split", "decoded", "jwks_request">>]
  /\ UNCHANGED <<now, authCache, calls, revokedAt>>

\* jwtVerify settles: the AuthInfo is returned, or the catch block returns
\* undefined
JwtVerifyReturn(outcome) ==
  /\ jwt.pc = "keys_wait"
  /\ outcome \in JwtOutcomes(jwt.token)
  /\ jwt' = Verified(IF outcome = "jwt_valid" THEN "identity" ELSE "undefined",
                     <<outcome>>)
  /\ UNCHANGED <<now, authCache, calls, revokedAt>>

NextJwt ==
  \/ \E token \in BearerValues : verifyAuth0Token(token)
  \/ \E o \in {"jwt_valid", "jwt_invalid", "jwks_unreachable"} : JwtVerifyReturn(o)

SpecJwt == Init /\ [][NextJwt]_vars

\* C27: a bearer value that does not consist of exactly three
\* dot-separated segments is rejected with "no identity" before the key set
\* is requested, and the verification of no bearer value ends by raising
C27_MalformedTokenFailsFast ==
  /\ (jwt.pc # "idle" /\ Len(jwt.token) # 3) =>
       /\ jwt.pc = "done"
       /\ jwt.result = "undefined"
       /\ ~Has(jwt.trace, "jwks_request")
  /\ jwt.result \in {"none", "undefined", "identity"}
  /\ jwt.result = "identity" =>
       /\ Len(jwt.token) = 3
       /\ Precedes(jwt.trace, {"jwks_request"}, {"jwt_valid"})
       /\ Has(jwt.trace, "jwt_valid")

\* a value of four segments whose second segment decodes to JSON
C27_Witness ==
  /\ jwt.pc = "done"
  /\ jwt.token = <<"header", "claims", "text", "text">>
  /\ jwt.result = "undefined"
  /\ jwt.trace = <<"split", "invalid_format">>


(***************************************************************************)
(* Failed verifications and the cache                                      *)
(***************************************************************************)
\* the verification of call c has ended with "no identity"
RefusedByVerifier(rec) ==
  /\ rec.pc = "done"
  /\ Last(rec.trace) = "no_identity"
  /\ \E o \in VerifyFailures : Has(rec.trace, o)

\* C28 as stated: a failed verification leaves the cache unchanged, so that
\* the next call with the same credential invokes the verifier again: when
\* a verification has just ended with "no identity" the cache holds no entry
\* that would be served for the credential
C28_NextCallVerifiesAgain ==
  \A c \in CallIds :
    RefusedByVerifier(calls[c]) =>
      ~CacheFresh(authCache[McpBearerToken(calls[c].header)], now)

\* C28: a verification that ends with "no identity" leaves the whole cache
\* unchanged; a credential is refused only in the step in which a failing
\* upstream answer to its own verification request arrives, never by a
\* lookup alone; a call issues a verification request exactly when no fresh
\* entry exists for its credential, so the call after a failed verification
\* verifies again unless another call has stored a fresh entry meanwhile
C28_FailureLeavesCacheUnchanged ==
  [][\A c \in CallIds :
       LET k == McpBearerToken(calls'[c].header)
           new == NewEvents(c)
       IN /\ Has(new, "no_identity") =>
               /\ authCache' = authCache
               /\ k # "" => (AwaitsVerification(c, k) /\ new[1] \in VerifyFailures)
          /\ (\E o \in VerifyFailures : Has(new, o)) =>
               /\ authCache' = authCache
               /\ Last(new) = "no_identity"
          /\ Has(new, "verify_request") <=>
               (k # "" /\ calls[c].pc \in {"idle", "handler"}
                  /\ calls'[c].pc \in {"gate_wait", "resolve_wait"}
                  /\ ~CacheFresh(authCache[k], now))
          /\ Has(new, "cache_hit") => CacheFresh(authCache[k], now)]_vars

\* a verification refused while the entry another call stored for the same
\* credential is fresh
C28_Witness ==
  \E c \in CallIds :
    /\ RefusedByVerifier(calls[c])
    /\ calls[c].trace[1] = "verify_request"
    /\ CacheFresh(authCache[McpBearerToken(calls[c].header)], now)


(***************************************************************************)
(* Concurrent verifications of one credential                              *)
(***************************************************************************)
\* another call is waiting for the answer to a verification of k
VerificationInFlight(c, k) ==
  \E d \in CallIds \ {c} : AwaitsVerification(d, k)

\* C29: calls that carry the same credential while no unexpired entry
\* exists each issue a verification request of their own, also while a
\* verification of the credential is in flight; each one that is answered
\* "valid" obtains the identity of the credential and writes the one entry
\* of the credential with expiresAt = its completion time + TTL, which is
\* never less than the expiresAt it replaces
C29_ConcurrentVerificationsOfOneCredential ==
  [][\A c \in CallIds :
       LET k == McpBearerToken(calls'[c].header)
           new == NewEvents(c)
       IN /\ ( /\ calls[c].pc = "idle" /\ calls'[c].pc # "idle"
               /\ calls'[c].endpoint = "mcp"
               /\ k # "" /\ ~CacheFresh(authCache[k], now) ) =>
               /\ Has(new, "verify_request")
               /\ calls'[c].pc = "gate_wait"
          /\ Has(new, "key_valid") =>
               /\ AwaitsVerification(c, k)
               /\ [token |-> k, clientId |-> AccountOf(k)] \in {calls'[c].auth, calls'[c].ident}
               /\ authCache'[k].authInfo = [token |-> k, clientId |-> AccountOf(k)]
               /\ authCache'[k].expiresAt = now + AUTH_CACHE_TTL_MS
               /\ authCache'[k].expiresAt >= authCache[k].expiresAt
               /\ \A j \in Keys \ {k} : authCache'[j] = authCache[j]]_vars

\* two calls with one credential were both answered "valid" by the
\* upstream API (the second asked while no entry was fresh, so before the
\* first was answered), and the entry is the one written by the answer
\* that arrived last, in the current period
C29_Witness ==
  \E c, d \in CallIds :
    /\ c # d
    /\ calls[c].header = Bearer("hitl_live_a") /\ calls[d].header = Bearer("hitl_live_a")
    /\ Len(calls[c].trace) >= 2 /\ Len(calls[d].trace) >= 2
    /\ SubSeq(calls[c].trace, 1, 2) = <<"verify_request", "key_valid">>
    /\ SubSeq(calls[d].trace, 1, 2) = <<"verify_request", "key_valid">>
    /\ calls[c].age = 1 /\ calls[d].age = 1
    /\ calls[c].pc = "handler" /\ calls[d].pc = "dispatch"
    /\ authCache["hitl_live_a"].expiresAt = now + AUTH_CACHE_TTL_MS


\* the updates object has keys, and none of them is a create_request field
OnlyUnrecognizedKeys(u) ==
  /\ u.t = "object"
  /\ DOMAIN u.f # {}
  /\ DOMAIN u.f \cap DOMAIN createRequestFieldsSchema = {}

\* the result of the same call made with an empty updates object
ResultWithEmptyUpdates(rec) ==
  LET args == ("updates" :> Obj(EmptyFields)) @@ rec.args
      shape == ShapeParse(rec.endpoint, "update_request", args)
  IN IF shape.ok THEN HandlerParse("update_request", shape.value).issues ELSE shape.issues

(***************************************************************************)
(* C30.  An update_request call whose updates object holds only keys       *)
(* outside the create_request field set is treated like a call with an     *)
(* empty updates object: the keys are dropped before the at-least-one-field *)
(* rule is evaluated, validation fails with the issues of the empty call    *)
(* (with a valid request_id: "Provide at least one field to update"), and   *)
(* no updateRequest is sent.  When an updateRequest is sent, its body holds *)
(* only fields of the caller's updates, with the caller's values: nothing   *)
(* such as a default platform is added.                                     *)
(***************************************************************************)
C30_UnrecognizedKeysAreDroppedNothingIsAdded ==
  \A c \in CallIds :
    LET rec == calls[c]
        u == Get(rec.args, "updates")
        shapeOk == ShapeParse(rec.endpoint, "update_request", rec.args).ok
    IN (rec.tool = "update_request" /\ ValidationCompleted(rec)) =>
         /\ OnlyUnrecognizedKeys(u) =>
              /\ ValidationFailed(rec)
              /\ rec.sent = NoCall
              /\ ~Has(rec.trace, "downstream_request")
              /\ rec.result.issues = ResultWithEmptyUpdates(rec)
              /\ shapeOk => Has(rec.trace, "parse_fail") /\ AtLeastOneField(rec)
         /\ rec.sent # NoCall =>
              /\ rec.sent.method = "updateRequest"
              /\ rec.sent.body.t = "object"
              /\ DOMAIN rec.sent.body.f = DOMAIN u.f \cap DOMAIN createRequestFieldsSchema
              /\ \A k \in DOMAIN rec.sent.body.f : rec.sent.body.f[k] = u.f[k]

\* a call with only an unrecognized key was refused by the rule
C30_Witness ==
  \E c \in CallIds :
    /\ calls[c].tool = "update_request" /\ calls[c].pc = "done"
    /\ Get(calls[c].args, "updates") = Obj("reviewer" :> Str("bob"))
    /\ Get(calls[c].args, "request_id") = Str("req_1")
    /\ AtLeastOneField(calls[c])
    /\ calls[c].sent = NoCall

\* a call with a recognized and an unrecognized key sent the recognized one
RecognizedKeySent ==
  \E c \in CallIds :
    /\ calls[c].tool = "update_request"
    /\ DOMAIN Get(calls[c].args, "updates").f = {"reviewer", "priority"}
    /\ calls[c].sent # NoCall
    /\ calls[c].sent.body = Obj("priority" :> Str("high"))

====
